---- MODULE Spec2Model ----
(***************************************************************************)
(* Model of the labs of the repository:                                    *)
(*   "rest"   - rest-go-webservice: the consumer service that applies CRUD  *)
(*              commands to MySQL inside one transaction and emits acks;    *)
(*   "sarama" - kafka-go-sarama-demo: the processor with staged retry       *)
(*              topics and DLQ, and the retry worker that re-queues;        *)
(*   "saga"   - saga-choreo-lab: a step service with DLQ and the DLQ        *)
(*              replayer.                                                   *)
(*   "gateway" - rest-go-webservice again: the API process (submit         *)
(*              handlers, ack consumer, result cache, sweeper, result       *)
(*              query) with the consumer service behind it;                 *)
(*   "service" - mockegen/message: the message Service over a Repository;   *)
(*   "retryworker" - kafka-go-sarama-demo: the retry worker on its own,     *)
(*              with its delay as a state and the signal that cancels it;   *)
(*   "order"  - tdd-with-gomock: the order Service (PlaceOrder);            *)
(*   "api"    - go-swagger-demo: the in-memory Messages API;                *)
(*   "cache"  - rest-go-webservice: the gateway's result cache under its    *)
(*              mutex, with putAck, sweeper and getAck as goroutines.       *)
(* The labs are separate programs over separate topics; the variable `lab`  *)
(* records which one a behaviour is a run of.                               *)
(***************************************************************************)
EXTENDS Integers, Sequences, FiniteSets, TLC

\* ------------------------------------------------------------------ bounds
\* number of records on the commands topic
MaxCmds == 1
\* number of consumer restarts (crash / rebalance) in a run
MaxCrashes == 1
\* number of failures injected in a run (a failing DB call, a failing produce)
MaxFaults == 1

\* ------------------------------------------------------------- rest: data
Keys == {"", "k1"}

Command(t, c, i, m) == [ok |-> TRUE, trace_id |-> t, command |-> c, id |-> i, message |-> m]

\* the decoded forms of the command values on the topic: one or two of each
\* operation, over two trace ids, one message id and two contents
CommandValues ==
  { Command("t1", "Create", 0, "a"),
    Command("t1", "Read", 1, ""),
    Command("t1", "Update", 1, "b"),
    Command("t2", "Update", 1, "a"),
    Command("t2", "Delete", 1, ""),
    Command("t2", "Purge", 0, "") }

\* a value json.Unmarshal rejects
BadValue == [ok |-> FALSE, trace_id |-> "", command |-> "", id |-> 0, message |-> ""]

\* what can go wrong inside one withTx call
Faults == {"none", "begin", "stmt", "commit"}

EmptyPayload == [has |-> {}, id |-> 0, message |-> ""]
NoError == [Code |-> "", Detail |-> <<>>]

VARIABLES
  lab,            \* which lab this behaviour runs
  \* ---- rest: broker
  commands,       \* the commands topic (one partition): records [key, value]
  acks,           \* the acks topic: records [key, value] with value an Ack
  pos,            \* offset of the record the ConsumeClaim loop handles next
  marked,         \* the session's marked offset (next offset to commit)
  committed,      \* the group's committed offset at the broker
  pc,             \* position of the loop body: "recv", "ack", "mark"
  cur,            \* the loop body's locals after withTx: status, event, payload, e
  crashes,        \* restarts so far
  \* ---- rest: MySQL
  messages,       \* table messages: id -> message
  nextId,         \* AUTO_INCREMENT counter of messages
  idempotency_keys, \* table idempotency_keys: key -> [last_status, trace_id]
  saga_log,       \* table saga_log, in insertion order
  faults,         \* failures injected so far (all labs)
  \* ---- rest: history
  effects,        \* idempotency key -> committed mutations of messages
  ackInfo,        \* for each record of acks: the delivery it answers
  markedOffsets,  \* offsets MarkMessage was called for
  ackedOffsets,   \* offsets whose ack produce succeeded
  \* ---- sarama: broker and the two consumer groups
  topics,         \* topic name -> records [key, value, headers] (one partition)
  procPos,        \* processor: offset of the record handled next on events.v1
  procMarked,     \* processor: marked offset
  procDown,       \* processor: TRUE once the process has panicked
  rwPos,          \* retry worker: per retry topic, offset handled next
  rwMarked,       \* retry worker: per retry topic, marked offset
  \* ---- sarama: history
  applied,        \* records whose businessLogic succeeded, in order
  hops,           \* body -> topics the processor published that record to
  \* ---- saga: environment, broker and the two readers
  sagaEnv,        \* STEP, FAIL_MODE, REPLAY_TARGET, SAGA_ID_FILTER of the run
  sagaTopics,     \* topic name -> messages [key, value, headers]
  stepPos,        \* step service: offset its reader returns next on TOPIC_IN
  replayPos,      \* replayer: offset its reader returns next on DLQ_TOPIC
  replayCommitted, \* replayer: its group's committed offset on DLQ_TOPIC
  replays,        \* messages the replayer has republished
  \* ---- saga: history
  replayFailed,   \* DLQ offsets whose replay produce failed
  \* ---- gateway: the API process in front of the consumer service
  uuids,          \* uuid.NewString() calls so far
  submits,        \* the responses to the submit requests, in order
  ackPos,         \* ack consumer: offset handled next on the acks topic
  resultCache,    \* map resultCache: trace id -> Ack
  resultExpires,  \* map resultExpires: trace id -> "future" or "past" (vs. now);
                  \* in the cache lab: trace id -> instant
  queries,        \* result queries started so far
  req,            \* the result query in flight: the handler's position and reply
  \* ---- service: mockegen/message, the Service over a Repository
  svcLog,         \* the calls made on the Service: input, repository calls, result
  \* ---- retryworker: the retry worker of kafka-go-sarama-demo on its own
  rwCtx,          \* the context of main: "live", or "cancelled" after a signal
  rwLoop,         \* per retry topic, where its ConsumeClaim loop is
  \* ---- order: tdd-with-gomock, the order Service over its two collaborators
  orderLog,       \* the PlaceOrder calls made: input, collaborator calls, result
  \* ---- api: go-swagger-demo, the in-memory Messages API
  store,          \* map store: id -> Message
  resp,           \* the responses written so far, one per request
  \* ---- cache: the gateway's result cache, its mutex and the goroutines on it
  cacheMu,        \* cacheMu: the goroutine holding Lock, the goroutines holding RLock
  cacheRun,       \* where each goroutine is in putAck, sweeper or getAck, and its locals
  cacheHist       \* time.Now(), and the putAck calls completed so far with their instants

restVars == <<commands, acks, pos, marked, committed, pc, cur, crashes,
              messages, nextId, idempotency_keys, saga_log, effects,
              ackInfo, markedOffsets, ackedOffsets>>

dbVars == <<messages, nextId, idempotency_keys, saga_log>>
ghostVars == <<faults, effects, ackInfo, markedOffsets, ackedOffsets>>

sarVars == <<topics, procPos, procMarked, procDown, rwPos, rwMarked, applied, hops>>

sagaVars == <<sagaEnv, sagaTopics, stepPos, replayPos, replayCommitted, replays,
              replayFailed>>

gwVars == <<uuids, submits, ackPos, resultCache, resultExpires, queries, req>>

\* the variables of the labs that run one component on its own
orderVars == <<orderLog>>
apiVars == <<store, resp>>
cacheVars == <<cacheMu, cacheRun, cacheHist>>
libVars == <<svcLog, rwCtx, rwLoop, orderVars, apiVars, cacheVars>>

vars == <<lab, faults, restVars, sarVars, sagaVars, gwVars, libVars>>

\* =================================================================== rest
NoCur == [status |-> "", event |-> "", payload |-> EmptyPayload, e |-> NoError,
          key |-> "", fault |-> "none", mutated |-> FALSE]

\* the sarama lab's variables while another lab runs
SarIdle ==
  /\ topics = <<>>
  /\ procPos = 1
  /\ procMarked = 1
  /\ procDown = FALSE
  /\ rwPos = <<>>
  /\ rwMarked = <<>>
  /\ applied = <<>>
  /\ hops = <<>>

\* the saga lab's variables while another lab runs
SagaIdle ==
  /\ sagaEnv = <<>>
  /\ sagaTopics = <<>>
  /\ stepPos = 1
  /\ replayPos = 1
  /\ replayCommitted = 1
  /\ replays = 0
  /\ replayFailed = {}

\* the result query handler while no request is in flight
NoReq == [pc |-> "idle", traceID |-> "", ctxDone |-> FALSE, tie |-> FALSE,
          code |-> 0, body |-> <<>>]

\* the gateway's variables while another lab runs, and at its start
GwIdle ==
  /\ uuids = 0
  /\ submits = <<>>
  /\ ackPos = 1
  /\ resultCache = <<>>
  /\ resultExpires = <<>>
  /\ queries = 0
  /\ req = NoReq

\* the order Service before any call
OrderIdle == orderLog = <<>>

\* the Messages API's variables while another lab runs
ApiIdle ==
  /\ store = <<>>
  /\ resp = <<>>

CacheIdle ==
  /\ cacheMu = <<>>
  /\ cacheRun = <<>>
  /\ cacheHist = <<>>

\* the variables of those labs while another lab runs
LibIdle ==
  /\ svcLog = <<>>
  /\ rwCtx = "live"
  /\ rwLoop = <<>>
  /\ OrderIdle
  /\ ApiIdle
  /\ CacheIdle

\* The commands topic holds what producers wrote to it; the consumer group
\* starts at the oldest offset (Consumer.Offsets.Initial = OffsetOldest).
Records == [key : Keys, value : CommandValues \cup {BadValue}]

\* the rest lab's variables before anything was consumed
RestIdle ==
  /\ acks = <<>>
  /\ pos = 1
  /\ marked = 1
  /\ committed = 1
  /\ pc = "recv"
  /\ cur = NoCur
  /\ crashes = 0
  /\ messages = <<>>
  /\ nextId = 1
  /\ idempotency_keys = <<>>
  /\ saga_log = <<>>
  /\ effects = <<>>
  /\ ackInfo = <<>>
  /\ markedOffsets = {}
  /\ ackedOffsets = {}

InitRest ==
  /\ lab = "rest"
  /\ faults = 0
  /\ commands \in UNION {[1..n -> Records] : n \in 0..MaxCmds}
  /\ RestIdle
  /\ SarIdle
  /\ SagaIdle
  /\ GwIdle
  /\ LibIdle

\* key := string(msg.Key); if key == "" { key = cmd.TraceID }
IdempotencyKey(msg) == IF msg.key = "" THEN msg.value.trace_id ELSE msg.key

\* checkIdempotent that never finds the row
checkIdempotent_NeverFound(idem, key) == FALSE

checkIdempotent(idem, key) == key \in DOMAIN idem

\* INSERT IGNORE: an existing row is left as it is
markIdempotent(idem, key, traceID, status) ==
  IF key \in DOMAIN idem THEN idem
  ELSE idem @@ (key :> [last_status |-> status, trace_id |-> traceID])

logSaga(log, traceID, step, status, code) ==
  Append(log, [trace_id |-> traceID, step |-> step, status |-> status, error_code |-> code])

\* RowsAffected of UPDATE messages SET message=m WHERE id=i: the driver
\* reports changed rows, so an existing row that already holds m counts 0
UpdateAffected(tbl, id, m) == IF id \in DOMAIN tbl /\ tbl[id] # m THEN 1 ELSE 0
\* a DELETE that reports a row affected whether or not there was one
DeleteAffected_AlwaysOne(tbl, id) == 1

DeleteAffected(tbl, id) == IF id \in DOMAIN tbl THEN 1 ELSE 0

DbError == [Code |-> "DB_ERROR", Detail |-> <<"err">>]
NotFound(id) == [Code |-> "NOT_FOUND", Detail |-> <<"id=", id>>]

\* The closure passed to withTx, run on the tables (tbl, nid, idem, log).
\* fault "stmt" makes the command's statement fail. The result holds the
\* tables as the closure leaves them, the captured locals, and done = TRUE
\* when the closure reached markIdempotent.
TxBody(msg, fault) ==
  LET cmd == msg.value
      key == IdempotencyKey(msg)
      base == [messages |-> messages, nextId |-> nextId, idempotency_keys |-> idempotency_keys,
               saga_log |-> saga_log, status |-> "SUCCESS", event |-> "",
               payload |-> EmptyPayload, e |-> NoError, mutated |-> FALSE, done |-> FALSE]
      fail(step, err, code) ==
        [base EXCEPT !.status = "FAILURE", !.e = err,
                     !.saga_log = logSaga(saga_log, cmd.trace_id, step, "FAILURE", code)]
      finish(r, step) ==
        [r EXCEPT !.saga_log = logSaga(saga_log, cmd.trace_id, step, "SUCCESS", ""),
                  !.idempotency_keys = markIdempotent(idempotency_keys, key, cmd.trace_id, "SUCCESS"),
                  !.done = TRUE]
  IN
  IF checkIdempotent(idempotency_keys, key) THEN base
  ELSE CASE cmd.command = "Create" ->
              IF fault = "stmt" THEN fail("CreateMessage", DbError, "DB_ERROR")
              ELSE finish([base EXCEPT !.messages = messages @@ (nextId :> cmd.message),
                                       !.nextId = nextId + 1,
                                       !.payload = [has |-> {"id", "message"}, id |-> nextId,
                                                    message |-> cmd.message],
                                       !.event = "MessageCreated",
                                       !.mutated = TRUE], "CreateMessage")
         [] cmd.command = "Read" ->
              IF fault = "stmt" \/ cmd.id \notin DOMAIN messages
              THEN fail("ReadMessage", NotFound(cmd.id), "NOT_FOUND")
              ELSE finish([base EXCEPT !.payload = [has |-> {"id", "message"}, id |-> cmd.id,
                                                    message |-> messages[cmd.id]],
                                       !.event = "MessageRead"], "ReadMessage")
         [] cmd.command = "Update" ->
              IF fault = "stmt" THEN fail("UpdateMessage", DbError, "DB_ERROR")
              ELSE IF UpdateAffected(messages, cmd.id, cmd.message) = 0
              THEN fail("UpdateMessage", NotFound(cmd.id), "NOT_FOUND")
              ELSE finish([base EXCEPT !.messages = [messages EXCEPT ![cmd.id] = cmd.message],
                                       !.payload = [has |-> {"id", "message"}, id |-> cmd.id,
                                                    message |-> cmd.message],
                                       !.event = "MessageUpdated",
                                       !.mutated = TRUE], "UpdateMessage")
         [] cmd.command = "Delete" ->
              IF fault = "stmt" THEN fail("DeleteMessage", DbError, "DB_ERROR")
              ELSE IF DeleteAffected(messages, cmd.id) = 0
              THEN fail("DeleteMessage", NotFound(cmd.id), "NOT_FOUND")
              ELSE finish([base EXCEPT !.messages = [i \in DOMAIN messages \ {cmd.id} |-> messages[i]],
                                       !.payload = [has |-> {"id"}, id |-> cmd.id, message |-> ""],
                                       !.event = "MessageDeleted",
                                       !.mutated = TRUE], "DeleteMessage")
         [] OTHER ->
              [base EXCEPT !.status = "FAILURE",
                           !.e = [Code |-> "UNSUPPORTED", Detail |-> <<"unknown command">>],
                           !.idempotency_keys =
                               markIdempotent(idempotency_keys, key, cmd.trace_id, "FAILURE"),
                           !.done = TRUE]

\* withTx that reports a failure but keeps what the closure wrote
withTx_NoRollback(msg, fault) ==
  LET r == TxBody(msg, fault) IN
  IF fault \in {"begin", "commit"}
  THEN [r EXCEPT !.status = "FAILURE", !.event = "Error",
                 !.e = [Code |-> "INTERNAL", Detail |-> <<"err">>]]
  ELSE r

\* withTx around the closure, then the err != nil branch of ConsumeClaim.
\* fault "begin": db.Begin or checkIdempotent fails, nothing ran;
\* fault "commit": markIdempotent or tx.Commit fails, everything is rolled
\* back (the AUTO_INCREMENT value it drew stays drawn) and the locals the
\* closure captured keep what it assigned.
withTx(msg, fault) ==
  LET r == TxBody(msg, fault)
      internal == [Code |-> "INTERNAL", Detail |-> <<"err">>]
      rolledBack(x) ==
        [x EXCEPT !.messages = messages, !.idempotency_keys = idempotency_keys,
                  !.saga_log = saga_log, !.mutated = FALSE,
                  !.status = "FAILURE", !.event = "Error", !.e = internal]
  IN
  IF fault = "begin"
  THEN rolledBack([r EXCEPT !.nextId = nextId, !.payload = EmptyPayload])
  ELSE IF fault = "commit" THEN rolledBack(r)
  ELSE r

\* the labs in which the consumer service runs: alone on a topic that any
\* producer wrote, or behind the gateway
ConsumerLabs == {"rest", "gateway"}

\* for msg := range claim.Messages(): decode, run the transaction.
ConsumeCommand ==
  /\ lab \in ConsumerLabs
  /\ pc = "recv"
  /\ pos <= Len(commands)
  /\ LET msg == commands[pos] IN
       IF ~msg.value.ok
       THEN \* bad command: continue
            /\ pos' = pos + 1
            /\ UNCHANGED <<pc, cur, dbVars, faults, effects>>
       ELSE \E fault \in Faults :
            LET r == withTx(msg, fault)
                key == IdempotencyKey(msg) IN
            /\ fault # "none" => faults < MaxFaults
            /\ faults' = IF fault # "none" THEN faults + 1 ELSE faults
            /\ messages' = r.messages
            /\ nextId' = r.nextId
            /\ idempotency_keys' = r.idempotency_keys
            /\ saga_log' = r.saga_log
            /\ cur' = [status |-> r.status, event |-> r.event, payload |-> r.payload,
                       e |-> r.e, key |-> key, fault |-> fault, mutated |-> r.mutated]
            /\ effects' = IF r.mutated
                          THEN IF key \in DOMAIN effects
                               THEN [effects EXCEPT ![key] = @ + 1]
                               ELSE effects @@ (key :> 1)
                          ELSE effects
            /\ pc' = "ack"
            /\ UNCHANGED pos
  /\ UNCHANGED <<lab, libVars, commands, acks, marked, committed, crashes,
                 ackInfo, markedOffsets, ackedOffsets, sarVars, sagaVars, gwVars>>

Ack(traceID, c) ==
  [trace_id |-> traceID, status |-> c.status, event |-> c.event,
   payload |-> c.payload, error |-> c.e]

\* ProduceAck that keys the ack with the idempotency key of the command
ProduceAck_KeyedByIdempotencyKey ==
  /\ lab \in ConsumerLabs
  /\ pc = "ack"
  /\ LET msg == commands[pos]
         ack == Ack(msg.value.trace_id, cur) IN
     \E sent \in BOOLEAN :
       /\ ~sent => faults < MaxFaults
       /\ faults' = IF sent THEN faults ELSE faults + 1
       /\ acks' = IF sent THEN Append(acks, [key |-> cur.key, value |-> ack]) ELSE acks
       /\ ackInfo' = IF sent
                     THEN Append(ackInfo, [off |-> pos, key |-> cur.key, cmd |-> msg.value,
                                           fault |-> cur.fault])
                     ELSE ackInfo
       /\ ackedOffsets' = IF sent THEN ackedOffsets \cup {pos} ELSE ackedOffsets
  /\ pc' = "mark"
  /\ UNCHANGED <<lab, libVars, commands, pos, marked, committed, cur, crashes, dbVars,
                 effects, markedOffsets, sarVars, sagaVars, gwVars>>
\* ackMsg with Key msg.Key; h.producer.SendMessage(ackMsg), error only logged.
ProduceAck ==
  /\ lab \in ConsumerLabs
  /\ pc = "ack"
  /\ LET msg == commands[pos]
         ack == Ack(msg.value.trace_id, cur) IN
     \E sent \in BOOLEAN :
       /\ ~sent => faults < MaxFaults
       /\ faults' = IF sent THEN faults ELSE faults + 1
       /\ acks' = IF sent THEN Append(acks, [key |-> msg.key, value |-> ack]) ELSE acks
       /\ ackInfo' = IF sent
                     THEN Append(ackInfo, [off |-> pos, key |-> cur.key, cmd |-> msg.value,
                                           fault |-> cur.fault])
                     ELSE ackInfo
       /\ ackedOffsets' = IF sent THEN ackedOffsets \cup {pos} ELSE ackedOffsets
  /\ pc' = "mark"
  /\ UNCHANGED <<lab, libVars, commands, pos, marked, committed, cur, crashes, dbVars,
                 effects, markedOffsets, sarVars, sagaVars, gwVars>>

\* sess.MarkMessage(msg, ""): the marked offset only moves forward.
MarkMessage ==
  /\ lab \in ConsumerLabs
  /\ pc = "mark"
  /\ marked' = IF pos + 1 > marked THEN pos + 1 ELSE marked
  /\ markedOffsets' = markedOffsets \cup {pos}
  /\ pos' = pos + 1
  /\ pc' = "recv"
  /\ cur' = NoCur
  /\ UNCHANGED <<lab, libVars, commands, acks, committed, crashes, dbVars,
                 faults, effects, ackInfo, ackedOffsets, sarVars, sagaVars, gwVars>>

\* The consumer dies or loses the claim; the for-loop of main consumes
\* again from the committed offset. The session commits marked offsets in
\* the background, so the committed offset found at the restart is any
\* offset that was marked since the last one. MySQL and the topics survive.
Restart ==
  /\ lab \in ConsumerLabs
  /\ crashes < MaxCrashes
  /\ crashes' = crashes + 1
  /\ \E c \in committed..marked :
       /\ committed' = c
       /\ pos' = c
       /\ marked' = c
  /\ pc' = "recv"
  /\ cur' = NoCur
  /\ UNCHANGED <<lab, libVars, commands, acks, dbVars, ghostVars, sarVars, sagaVars, gwVars>>

NextRest == ConsumeCommand \/ ProduceAck \/ MarkMessage
           \/ Restart

SpecRest == InitRest /\ [][NextRest]_vars

\* strings.TrimSpace on the contents that occur
TrimSpace(s) ==
  IF s \in {"", " ", "  ", "   "} THEN ""
  ELSE IF s = " hello " THEN "hello"
  ELSE s

\* commands whose content came from a producer other than the API's
\* handlers, which answer 400 to an empty or blank message: empty and blank
\* contents beside a proper one
UnvalidatedCommandValues ==
  { Command("t1", "Create", 0, ""),
    Command("t1", "Create", 0, " "),
    Command("t1", "Create", 0, "a"),
    Command("t2", "Update", 1, ""),
    Command("t2", "Update", 1, " ") }

\* the consumer service on a commands topic that holds such commands
InitRestUnvalidated ==
  /\ lab = "rest"
  /\ faults = 0
  /\ commands \in UNION {[1..n -> [key : Keys, value : UnvalidatedCommandValues]] :
                           n \in 0..MaxCmds + 1}
  /\ RestIdle
  /\ SarIdle
  /\ SagaIdle
  /\ GwIdle
  /\ LibIdle

SpecRestUnvalidated == InitRestUnvalidated /\ [][NextRest]_vars
\* ================================================================= sarama
HeaderAttempt == "x-retry-attempt"
HeaderError == "x-error"

MainTopic == "events.v1"
DlqTopic == "events.v1.dlq"

\* retry.Stages, delays in seconds
Stages == << [Topic |-> "events.v1.retry.5s", Delay |-> 5],
             [Topic |-> "events.v1.retry.30s", Delay |-> 30],
             [Topic |-> "events.v1.retry.2m", Delay |-> 120] >>

RetryTopics == {Stages[i].Topic : i \in DOMAIN Stages}
SarTopics == {MainTopic, DlqTopic} \cup RetryTopics

\* strconv.Itoa and strconv.Atoi on the attempts that occur
Numerals == <<"0", "1", "2", "3", "4", "5", "6", "7", "8", "9">>
Itoa(n) == IF n = -1 THEN "-1" ELSE Numerals[n + 1]
Atoi(s) ==
  IF \E n \in -1..9 : Itoa(n) = s
  THEN [ok |-> TRUE, n |-> CHOOSE n \in -1..9 : Itoa(n) = s]
  ELSE [ok |-> FALSE, n |-> 0]

Header(k, v) == [key |-> k, value |-> v]

\* the header the demo producer sets
ContentType == Header("content-type", "text/plain")

\* the attempt headers records arrive with from outside the lab
ForeignAttempts == {"-1", "2", "3", "4"}

SarKeys == {"user-42", "user-7"}

\* number of records on events.v1 at the start
MaxEvents == 2
\* number of times the processor forwards one record
MaxHops == 3

\* records on events.v1 at the start: value is prefix + body, and the body
\* numbers the records in publish order
InitialEvents ==
  UNION { { log \in [1..n -> [key : SarKeys,
                              value : [prefix : {"ok: ", "fail:"}, body : 1..n],
                              headers : {<<ContentType>>} \cup
                                        {<<ContentType, Header(HeaderAttempt, a)>> :
                                           a \in ForeignAttempts}]] :
              \A i \in 1..n : log[i].value.body = i } : n \in 0..MaxEvents }

InitSarama ==
  /\ lab = "sarama"
  /\ faults = 0
  /\ \E log \in InitialEvents :
       /\ topics = [t \in SarTopics |-> IF t = MainTopic THEN log ELSE <<>>]
       /\ hops = [b \in 1..Len(log) |-> <<>>]
  /\ procPos = 1
  /\ procMarked = 1
  /\ procDown = FALSE
  /\ rwPos = [t \in RetryTopics |-> 1]
  /\ rwMarked = [t \in RetryTopics |-> 1]
  /\ applied = <<>>
  /\ commands = <<>>
  /\ RestIdle
  /\ SagaIdle
  /\ GwIdle
  /\ LibIdle

\* parseAttempt: the first x-retry-attempt header that Atoi accepts, else 0
RECURSIVE parseAttempt(_)
parseAttempt(headers) ==
  IF headers = <<>> THEN 0
  ELSE IF Head(headers).key = HeaderAttempt /\ Atoi(Head(headers).value).ok
       THEN Atoi(Head(headers).value).n
       ELSE parseAttempt(Tail(headers))

\* retry.Next that gives up one stage early
RetryNext_OneStageShort(attempt) ==
  IF attempt < Len(Stages) - 1 /\ attempt >= 0
  THEN [ok |-> TRUE, panic |-> FALSE, Topic |-> Stages[attempt + 1].Topic]
  ELSE [ok |-> FALSE, panic |-> attempt < 0, Topic |-> ""]

\* retry.Next: Stages[attempt] (from 0) when attempt < len(Stages); an
\* index below 0 is a runtime panic
RetryNext(attempt) ==
  IF attempt < Len(Stages)
  THEN IF attempt < 0
       THEN [ok |-> FALSE, panic |-> TRUE, Topic |-> ""]
       ELSE [ok |-> TRUE, panic |-> FALSE, Topic |-> Stages[attempt + 1].Topic]
  ELSE [ok |-> FALSE, panic |-> FALSE, Topic |-> ""]

\* businessLogic that fails only on the first delivery of a "fail:" payload
businessLogic_FailsOnce(msg) ==
  msg.value.prefix # "fail:" \/ parseAttempt(msg.headers) > 0

\* businessLogic: fails when the payload starts with "fail:"
businessLogic(msg) == msg.value.prefix # "fail:"

ErrText == "downstream: simulated failure"

\* publishNextRetry that forwards the attempt it read without adding one
publishNextRetry_SameAttempt(msg) ==
  LET attempt == parseAttempt(msg.headers)
      stage == RetryNext(attempt) IN
  [panic |-> stage.panic, Topic |-> IF stage.ok THEN stage.Topic ELSE DlqTopic,
   key |-> msg.key, value |-> msg.value,
   headers |-> msg.headers \o <<Header(HeaderAttempt, Itoa(attempt)),
                                Header(HeaderError, ErrText)>>]

\* publishNextRetry: the record h.prod.SendMessage is called with
publishNextRetry(msg) ==
  LET attempt == parseAttempt(msg.headers)
      stage == RetryNext(attempt) IN
  IF stage.ok
  THEN [panic |-> FALSE, Topic |-> stage.Topic, key |-> msg.key, value |-> msg.value,
        headers |-> msg.headers \o <<Header(HeaderAttempt, Itoa(attempt + 1)),
                                     Header(HeaderError, ErrText)>>]
  ELSE [panic |-> stage.panic, Topic |-> DlqTopic, key |-> msg.key, value |-> msg.value,
        headers |-> msg.headers \o <<Header(HeaderAttempt, Itoa(attempt)),
                                     Header(HeaderError, ErrText)>>]

Record(out) == [key |-> out.key, value |-> out.value, headers |-> out.headers]

\* processor ConsumeClaim, one iteration of the loop
ProcessorConsume ==
  /\ lab = "sarama"
  /\ ~procDown
  /\ procPos <= Len(topics[MainTopic])
  /\ LET msg == topics[MainTopic][procPos] IN
     IF businessLogic(msg)
     THEN /\ applied' = Append(applied, [key |-> msg.key, body |-> msg.value.body])
          /\ procMarked' = IF procPos + 1 > procMarked THEN procPos + 1 ELSE procMarked
          /\ procPos' = procPos + 1
          /\ UNCHANGED <<topics, procDown, hops, faults>>
     ELSE LET out == publishNextRetry(msg) IN
          IF out.panic
          THEN /\ procDown' = TRUE
               /\ UNCHANGED <<topics, procPos, procMarked, applied, hops, faults>>
          ELSE /\ Len(hops[msg.value.body]) < MaxHops
               /\ \E sent \in BOOLEAN :
                    /\ ~sent => faults < MaxFaults
                    /\ faults' = IF sent THEN faults ELSE faults + 1
                    /\ topics' = IF sent
                                 THEN [topics EXCEPT ![out.Topic] = Append(@, Record(out))]
                                 ELSE topics
                    /\ hops' = IF sent
                               THEN [hops EXCEPT ![msg.value.body] = Append(@, out.Topic)]
                               ELSE hops
                    \* a failed publish is not marked
                    /\ procMarked' = IF sent /\ procPos + 1 > procMarked
                                     THEN procPos + 1 ELSE procMarked
               /\ procPos' = procPos + 1
               /\ UNCHANGED <<procDown, applied>>
  /\ UNCHANGED <<lab, libVars, rwPos, rwMarked, restVars, sagaVars, gwVars>>

\* a requeue that sends the record without its key
Requeue_NoKey(msg) == [key |-> "", value |-> msg.value, headers |-> msg.headers]

\* the record the retry worker sends to events.v1
Requeue(msg) == [key |-> msg.key, value |-> msg.value, headers |-> msg.headers]

\* retry worker ConsumeClaim on retry topic t, one iteration of the loop
RetryWorkerConsume(t) ==
  /\ lab = "sarama"
  /\ rwPos[t] <= Len(topics[t])
  /\ LET msg == topics[t][rwPos[t]] IN
     \E sent \in BOOLEAN :
       /\ ~sent => faults < MaxFaults
       /\ faults' = IF sent THEN faults ELSE faults + 1
       /\ topics' = IF sent
                    THEN [topics EXCEPT ![MainTopic] = Append(@, Requeue(msg))]
                    ELSE topics
       /\ rwMarked' = IF sent /\ rwPos[t] + 1 > rwMarked[t]
                      THEN [rwMarked EXCEPT ![t] = rwPos[t] + 1] ELSE rwMarked
  /\ rwPos' = [rwPos EXCEPT ![t] = @ + 1]
  /\ UNCHANGED <<lab, libVars, procPos, procMarked, procDown, applied, hops, restVars, sagaVars, gwVars>>

NextSarama == ProcessorConsume \/ \E t \in RetryTopics : RetryWorkerConsume(t)

SpecSarama == InitSarama /\ [][NextSarama]_vars

\* ------------------------------------------------------------ retryworker
\* The retry worker alone: retry topics that hold what the processor sent
\* there, one ConsumeClaim loop per retry topic, and the signal handler of
\* main. The delay of a stage is the time between RequeueSleep and
\* DelayElapses.

\* number of records on each retry topic at the start
MaxRetryRecords == 1

\* a record as the processor publishes it to a retry topic
RetryRecords ==
  { [key |-> k, value |-> [prefix |-> "fail:", body |-> 1],
     headers |-> <<ContentType, Header(HeaderAttempt, "1"), Header(HeaderError, ErrText)>>] :
      k \in SarKeys }

InitRetryWorker ==
  /\ lab = "retryworker"
  /\ faults = 0
  /\ \E logs \in [RetryTopics -> UNION {[1..n -> RetryRecords] : n \in 0..MaxRetryRecords}] :
       topics = [t \in SarTopics |-> IF t \in RetryTopics THEN logs[t] ELSE <<>>]
  /\ procPos = 1
  /\ procMarked = 1
  /\ procDown = FALSE
  /\ rwPos = [t \in RetryTopics |-> 1]
  /\ rwMarked = [t \in RetryTopics |-> 1]
  /\ applied = <<>>
  /\ hops = <<>>
  /\ commands = <<>>
  /\ RestIdle
  /\ SagaIdle
  /\ GwIdle
  /\ svcLog = <<>>
  /\ OrderIdle
  /\ ApiIdle
  /\ CacheIdle
  /\ rwCtx = "live"
  /\ rwLoop = [t \in RetryTopics |-> "recv"]

\* the signal goroutine of main: SIGINT or SIGTERM arrives, cancel()
Cancel ==
  /\ lab = "retryworker"
  /\ rwCtx = "live"
  /\ rwCtx' = "cancelled"
  /\ UNCHANGED <<lab, faults, restVars, sarVars, sagaVars, gwVars, svcLog, orderVars, apiVars, cacheVars,
                 rwLoop>>

\* for msg := range c.Messages() hands out the next record and the loop
\* body enters time.Sleep(delay); records the claim has buffered are handed
\* out after the cancellation too, until the channel is closed
RequeueSleep(t) ==
  /\ lab = "retryworker"
  /\ rwLoop[t] = "recv"
  /\ rwPos[t] <= Len(topics[t])
  /\ rwLoop' = [rwLoop EXCEPT ![t] = "sleep"]
  /\ UNCHANGED <<lab, faults, restVars, sarVars, sagaVars, gwVars, svcLog, orderVars, apiVars, cacheVars,
                 rwCtx>>

\* the delay of the stage has passed since the loop entered time.Sleep
DelayElapses(t) ==
  /\ lab = "retryworker"
  /\ rwLoop[t] = "sleep"
  /\ rwLoop' = [rwLoop EXCEPT ![t] = "due"]
  /\ UNCHANGED <<lab, faults, restVars, sarVars, sagaVars, gwVars, svcLog, orderVars, apiVars, cacheVars,
                 rwCtx>>

\* a loop body whose sleep can return before the delay is over
RequeueWake_BeforeDelay(t) ==
  /\ lab = "retryworker"
  /\ rwLoop[t] \in {"sleep", "due"}
  /\ LET msg == topics[t][rwPos[t]] IN
     \E sent \in BOOLEAN :
       /\ ~sent => faults < MaxFaults
       /\ faults' = IF sent THEN faults ELSE faults + 1
       /\ topics' = IF sent
                    THEN [topics EXCEPT ![MainTopic] = Append(@, Requeue(msg))]
                    ELSE topics
       /\ rwMarked' = IF sent /\ rwPos[t] + 1 > rwMarked[t]
                      THEN [rwMarked EXCEPT ![t] = rwPos[t] + 1] ELSE rwMarked
  /\ rwPos' = [rwPos EXCEPT ![t] = @ + 1]
  /\ rwLoop' = [rwLoop EXCEPT ![t] = "recv"]
  /\ UNCHANGED <<lab, procPos, procMarked, procDown, applied, hops, restVars, sagaVars,
                 gwVars, svcLog, orderVars, apiVars, cacheVars, rwCtx>>

\* time.Sleep returns once the delay is over, whatever happened to the
\* context; the record is sent to events.v1 and, when that worked, marked
RequeueWake(t) ==
  /\ lab = "retryworker"
  /\ rwLoop[t] = "due"
  /\ LET msg == topics[t][rwPos[t]] IN
     \E sent \in BOOLEAN :
       /\ ~sent => faults < MaxFaults
       /\ faults' = IF sent THEN faults ELSE faults + 1
       /\ topics' = IF sent
                    THEN [topics EXCEPT ![MainTopic] = Append(@, Requeue(msg))]
                    ELSE topics
       /\ rwMarked' = IF sent /\ rwPos[t] + 1 > rwMarked[t]
                      THEN [rwMarked EXCEPT ![t] = rwPos[t] + 1] ELSE rwMarked
  /\ rwPos' = [rwPos EXCEPT ![t] = @ + 1]
  /\ rwLoop' = [rwLoop EXCEPT ![t] = "recv"]
  /\ UNCHANGED <<lab, procPos, procMarked, procDown, applied, hops, restVars, sagaVars,
                 gwVars, svcLog, orderVars, apiVars, cacheVars,
                 rwCtx>>

\* the session ends after the cancellation: c.Messages() is closed, the
\* range loop ends and ConsumeClaim returns
RequeueStop(t) ==
  /\ lab = "retryworker"
  /\ rwCtx = "cancelled"
  /\ rwLoop[t] = "recv"
  /\ rwLoop' = [rwLoop EXCEPT ![t] = "stopped"]
  /\ UNCHANGED <<lab, faults, restVars, sarVars, sagaVars, gwVars, svcLog, orderVars, apiVars, cacheVars,
                 rwCtx>>

NextRetryWorker ==
  \/ Cancel
  \/ \E t \in RetryTopics : RequeueSleep(t)
  \/ \E t \in RetryTopics : DelayElapses(t)
  \/ \E t \in RetryTopics : RequeueWake(t)
  \/ \E t \in RetryTopics : RequeueStop(t)

SpecRetryWorker == InitRetryWorker /\ [][NextRetryWorker]_vars
\* =================================================================== saga
HeaderSagaId == "x-saga-id"
HeaderOriginalTopic == "x-original-topic"

\* TOPIC_IN, TOPIC_OUT and DLQ_TOPIC of the step service (all non-empty, or
\* RunStepService returns at once); the replayer reads the same DLQ_TOPIC
TopicIn == "saga.step4.completed"
TopicOut == "saga.step5.completed"
SagaDlq == "saga.dlq"
ReplayTarget == "saga.replay"
SagaTopicNames == {TopicIn, TopicOut, SagaDlq, ReplayTarget}

SagaIds == {"s1", "s2"}
FailModes == {"none", "flaky:0.5", "retryable", "fatal"}

\* number of messages on TOPIC_IN at the start
MaxSagaEvents == 2
\* number of messages the replayer republishes in a run
MaxReplays == 2

\* json.Marshal of an Event, and a value json.Unmarshal rejects
Json(evt) == [wellformed |-> TRUE, saga_id |-> evt.saga_id, step |-> evt.step]
NotJson == [wellformed |-> FALSE, saga_id |-> "", step |-> 0]
Unmarshal(value) == [saga_id |-> value.saga_id, step |-> value.step]

\* messages of the upstream step: keyed by saga id, as the emitter keys them
UpstreamMessages(step) ==
  UNION { { [key |-> id, value |-> v, headers |-> <<Header(HeaderSagaId, id)>>] :
              v \in {Json([saga_id |-> id, step |-> step]), NotJson} } : id \in SagaIds }

\* a quarantined message that some other producer wrote without
\* x-original-topic header
ForeignDlqMessage ==
  [key |-> "s1", value |-> Json([saga_id |-> "s1", step |-> 5]),
   headers |-> <<Header(HeaderSagaId, "s1")>>]

InitSaga ==
  /\ lab = "saga"
  /\ faults = 0
  /\ \E step \in {4, 5}, mode \in FailModes, target \in {"", ReplayTarget},
        filter \in {""} \cup SagaIds, seeded \in {0, 1} :
       /\ sagaEnv = [STEP |-> step, FAIL_MODE |-> mode, REPLAY_TARGET |-> target,
                     SAGA_ID_FILTER |-> filter, seeded |-> seeded]
       /\ \E log \in UNION {[1..n -> UpstreamMessages(step)] : n \in 0..MaxSagaEvents} :
            sagaTopics = [t \in SagaTopicNames |->
                            IF t = TopicIn THEN log
                            ELSE IF t = SagaDlq /\ seeded = 1 THEN <<ForeignDlqMessage>>
                            ELSE <<>>]
  /\ stepPos = 1
  /\ replayPos = 1
  /\ replayCommitted = 1
  /\ replays = 0
  /\ replayFailed = {}
  /\ commands = <<>>
  /\ RestIdle
  /\ SarIdle
  /\ GwIdle
  /\ LibIdle

\* Process: the (event, fatal) pairs it can return; only step 5 honors
\* FAIL_MODE, and "flaky:p" fails on a random draw
Process(step, failMode, evt) ==
  LET next == [evt EXCEPT !.step = step + 1] IN
  IF step # 5 \/ failMode = "" \/ failMode = "none"
  THEN {[evt |-> next, fatal |-> FALSE]}
  ELSE IF failMode = "flaky:0.5"
  THEN {[evt |-> evt, fatal |-> FALSE], [evt |-> next, fatal |-> FALSE]}
  ELSE IF failMode = "retryable" THEN {[evt |-> evt, fatal |-> FALSE]}
  ELSE IF failMode = "fatal" THEN {[evt |-> evt, fatal |-> TRUE]}
  ELSE {[evt |-> next, fatal |-> FALSE]}

\* a step service that leaves the original-topic header off its DLQ message
StepOutput_NoOriginalTopic(m, evt, r) ==
  LET base == m.headers \o <<Header(HeaderSagaId, evt.saga_id)>> IN
  IF r.fatal
  THEN [Topic |-> SagaDlq, key |-> m.key, value |-> Json(r.evt), headers |-> base]
  ELSE [Topic |-> TopicOut, key |-> m.key, value |-> Json(r.evt), headers |-> base]
\* the message RunStepService writes for inbound m and Process result r,
\* with the topic it writes it to
StepOutput(m, evt, r) ==
  LET base == m.headers \o <<Header(HeaderSagaId, evt.saga_id)>> IN
  IF r.fatal
  THEN [Topic |-> SagaDlq, key |-> m.key, value |-> Json(r.evt),
        headers |-> base \o <<Header(HeaderOriginalTopic, TopicIn)>>]
  ELSE [Topic |-> TopicOut, key |-> m.key, value |-> Json(r.evt), headers |-> base]

\* RunStepService, one iteration of the loop. The reader has a GroupID and
\* ReadMessage commits the offset of what it returns.
StepServiceHandle ==
  /\ lab = "saga"
  /\ stepPos <= Len(sagaTopics[TopicIn])
  /\ LET m == sagaTopics[TopicIn][stepPos] IN
     IF ~m.value.wellformed
     THEN \* bad json: continue
          UNCHANGED <<sagaTopics, faults>>
     ELSE \E r \in Process(sagaEnv.STEP, sagaEnv.FAIL_MODE, Unmarshal(m.value)) :
          \E sent \in BOOLEAN :
            LET out == StepOutput(m, Unmarshal(m.value), r) IN
            /\ ~sent => faults < MaxFaults
            /\ faults' = IF sent THEN faults ELSE faults + 1
            /\ sagaTopics' = IF sent
                             THEN [sagaTopics EXCEPT ![out.Topic] = Append(@, Record(out))]
                             ELSE sagaTopics
  /\ stepPos' = stepPos + 1
  /\ UNCHANGED <<lab, libVars, sagaEnv, replayPos, replayCommitted, replays, replayFailed,
                 restVars, sarVars, gwVars>>

\* the value of the last header named k, or dflt when there is none
RECURSIVE LastHeader(_, _, _)
LastHeader(headers, k, dflt) ==
  IF headers = <<>> THEN dflt
  ELSE LastHeader(Tail(headers), k, IF Head(headers).key = k THEN Head(headers).value ELSE dflt)

\* a replay destination that prefers a configured REPLAY_TARGET
ReplayDestination_TargetFirst(headers, replayDefault) ==
  IF replayDefault # "" THEN replayDefault
  ELSE LastHeader(headers, HeaderOriginalTopic, replayDefault)

\* the replay destination: orig := replayDefault, then every
\* x-original-topic header in turn overwrites it
ReplayDestination(headers, replayDefault) ==
  LastHeader(headers, HeaderOriginalTopic, replayDefault)

\* RunDLQReplayer that does not look at SAGA_ID_FILTER
ReplayerHandle_NoFilter ==
  /\ lab = "saga"
  /\ replayPos <= Len(sagaTopics[SagaDlq])
  /\ LET m == sagaTopics[SagaDlq][replayPos]
         orig == ReplayDestination(m.headers, sagaEnv.REPLAY_TARGET) IN
     IF \/ ~m.value.wellformed
        \/ orig = ""
     THEN UNCHANGED <<sagaTopics, faults, replays, replayFailed>>
     ELSE /\ replays < MaxReplays
          /\ \E sent \in BOOLEAN :
               /\ ~sent => faults < MaxFaults
               /\ faults' = IF sent THEN faults ELSE faults + 1
               /\ sagaTopics' = IF sent
                                THEN [sagaTopics EXCEPT ![orig] =
                                        Append(@, [key |-> m.key, value |-> m.value,
                                                   headers |-> m.headers])]
                                ELSE sagaTopics
               /\ replays' = IF sent THEN replays + 1 ELSE replays
               /\ replayFailed' = IF sent THEN replayFailed
                                  ELSE replayFailed \cup {replayPos}
  /\ replayPos' = replayPos + 1
  /\ replayCommitted' = replayPos + 1
  /\ UNCHANGED <<lab, libVars, sagaEnv, stepPos, restVars, sarVars, gwVars>>
\* RunDLQReplayer, one iteration of the loop. The reader has a GroupID, so
\* ReadMessage commits the offset of the message before it returns it.
ReplayerHandle ==
  /\ lab = "saga"
  /\ replayPos <= Len(sagaTopics[SagaDlq])
  /\ LET m == sagaTopics[SagaDlq][replayPos]
         orig == ReplayDestination(m.headers, sagaEnv.REPLAY_TARGET) IN
     IF \/ ~m.value.wellformed
        \/ (sagaEnv.SAGA_ID_FILTER # "" /\ Unmarshal(m.value).saga_id # sagaEnv.SAGA_ID_FILTER)
        \/ orig = ""
     THEN UNCHANGED <<sagaTopics, faults, replays, replayFailed>>
     ELSE /\ replays < MaxReplays
          /\ \E sent \in BOOLEAN :
               /\ ~sent => faults < MaxFaults
               /\ faults' = IF sent THEN faults ELSE faults + 1
               /\ sagaTopics' = IF sent
                                THEN [sagaTopics EXCEPT ![orig] =
                                        Append(@, [key |-> m.key, value |-> m.value,
                                                   headers |-> m.headers])]
                                ELSE sagaTopics
               /\ replays' = IF sent THEN replays + 1 ELSE replays
               /\ replayFailed' = IF sent THEN replayFailed
                                  ELSE replayFailed \cup {replayPos}
  /\ replayPos' = replayPos + 1
  /\ replayCommitted' = replayPos + 1
  /\ UNCHANGED <<lab, libVars, sagaEnv, stepPos, restVars, sarVars, gwVars>>

\* The replayer process is restarted: its new reader starts at the group's
\* committed offset.
ReplayerRestart ==
  /\ lab = "saga"
  /\ replayPos' = replayCommitted
  /\ UNCHANGED <<lab, libVars, faults, sagaEnv, sagaTopics, stepPos, replayCommitted, replays,
                 replayFailed, restVars, sarVars, gwVars>>

NextSaga == StepServiceHandle \/ ReplayerHandle \/ ReplayerRestart

SpecSaga == InitSaga /\ [][NextSaga]_vars

\* ================================================================ gateway
\* The API process of rest-go-webservice (handlers, ack consumer, result
\* cache, sweeper) with the consumer service behind it.

\* number of submit requests in a run
MaxEnqueues == 1
\* number of result queries in a run
MaxQueries == 1

\* the values successive uuid.NewString() calls return
Uuids == <<"u1", "u2", "u3", "u4", "u5", "u6", "u7", "u8", "u9", "u10", "u11", "u12">>

\* the submit requests the handlers pass on to enqueueCommand: POST
\* /v1/messages, and GET, PUT, DELETE /v1/messages/{id}
GatewayRequests ==
  { [cmd |-> "Create", id |-> 0, message |-> "a"],
    [cmd |-> "Read", id |-> 1, message |-> ""],
    [cmd |-> "Update", id |-> 1, message |-> "b"],
    [cmd |-> "Delete", id |-> 1, message |-> ""] }

InitGateway ==
  /\ lab = "gateway"
  /\ faults = 0
  /\ commands = <<>>
  /\ RestIdle
  /\ SarIdle
  /\ SagaIdle
  /\ GwIdle
  /\ LibIdle

\* enqueueCommand that answers PENDING with the trace id also when the
\* produce failed
enqueueCommand_PendingOnFailure ==
  /\ lab = "gateway"
  /\ Len(submits) < MaxEnqueues
  /\ \E r \in GatewayRequests, sent \in BOOLEAN :
       LET traceID == Uuids[uuids + 1]
           idemp == Uuids[uuids + 2] IN
       /\ ~sent => faults < MaxFaults
       /\ faults' = IF sent THEN faults ELSE faults + 1
       /\ commands' = IF sent
                      THEN Append(commands, [key |-> idemp,
                                             value |-> Command(traceID, r.cmd, r.id, r.message)])
                      ELSE commands
       /\ submits' = Append(submits,
                            [code |-> 200, trace_id |-> traceID, status |-> "PENDING"])
  /\ uuids' = uuids + 2
  /\ UNCHANGED <<lab, libVars, acks, pos, marked, committed, pc, cur, crashes, dbVars, effects,
                 ackInfo, markedOffsets, ackedOffsets, ackPos, resultCache,
                 resultExpires, queries, req, sarVars, sagaVars>>
\* enqueueCommand: two fresh uuids, one SendMessage; 503 when it fails,
\* else the default status with {trace_id, "PENDING"}
enqueueCommand ==
  /\ lab = "gateway"
  /\ Len(submits) < MaxEnqueues
  /\ \E r \in GatewayRequests, sent \in BOOLEAN :
       LET traceID == Uuids[uuids + 1]
           idemp == Uuids[uuids + 2] IN
       /\ ~sent => faults < MaxFaults
       /\ faults' = IF sent THEN faults ELSE faults + 1
       /\ commands' = IF sent
                      THEN Append(commands, [key |-> idemp,
                                             value |-> Command(traceID, r.cmd, r.id, r.message)])
                      ELSE commands
       /\ submits' = Append(submits,
                            IF sent
                            THEN [code |-> 200, trace_id |-> traceID, status |-> "PENDING"]
                            ELSE [code |-> 503, trace_id |-> "", status |-> ""])
  /\ uuids' = uuids + 2
  /\ UNCHANGED <<lab, libVars, acks, pos, marked, committed, pc, cur, crashes, dbVars, effects,
                 ackInfo, markedOffsets, ackedOffsets, ackPos, resultCache,
                 resultExpires, queries, req, sarVars, sagaVars>>

\* putAck that keeps only the acks of successful commands
putAck_OnlySuccess(c, a) ==
  IF a.status # "SUCCESS" THEN c
  ELSE [resultCache |-> [id \in DOMAIN c.resultCache \cup {a.trace_id} |->
                           IF id = a.trace_id THEN a ELSE c.resultCache[id]],
        resultExpires |-> [id \in DOMAIN c.resultExpires \cup {a.trace_id} |->
                             IF id = a.trace_id THEN "future" ELSE c.resultExpires[id]]]

\* putAck on the two maps c: the entry of a.TraceID is set, and its expiry
\* is now + cacheTTL, which lies in the future
putAck(c, a) ==
  [resultCache |-> [id \in DOMAIN c.resultCache \cup {a.trace_id} |->
                      IF id = a.trace_id THEN a ELSE c.resultCache[id]],
   resultExpires |-> [id \in DOMAIN c.resultExpires \cup {a.trace_id} |->
                        IF id = a.trace_id THEN "future" ELSE c.resultExpires[id]]]

\* getAck that does not look at the expiry
getAck_IgnoresExpiry(c, id) ==
  IF id \in DOMAIN c.resultCache
  THEN [ok |-> TRUE, a |-> <<c.resultCache[id]>>]
  ELSE [ok |-> FALSE, a |-> <<>>]

\* getAck: (a, true) when id is cached and its expiry has not passed; an id
\* without expiry entry has the zero time, which has passed
getAck(c, id) ==
  IF id \in DOMAIN c.resultCache
     /\ id \in DOMAIN c.resultExpires /\ c.resultExpires[id] # "past"
  THEN [ok |-> TRUE, a |-> <<c.resultCache[id]>>]
  ELSE [ok |-> FALSE, a |-> <<>>]

\* the two maps as the operators above take them
Cache == [resultCache |-> resultCache, resultExpires |-> resultExpires]

\* ackHandler.ConsumeClaim, one iteration: an ack that decodes and has a
\* trace id is cached (and marked); anything else is passed over
AckConsume ==
  /\ lab = "gateway"
  /\ ackPos <= Len(acks)
  /\ LET a == acks[ackPos].value IN
     IF a.trace_id # ""
     THEN /\ resultCache' = putAck(Cache, a).resultCache
          /\ resultExpires' = putAck(Cache, a).resultExpires
     ELSE UNCHANGED <<resultCache, resultExpires>>
  /\ ackPos' = ackPos + 1
  /\ UNCHANGED <<lab, libVars, faults, restVars, uuids, submits, queries, req, sarVars, sagaVars>>

\* time passes the expiry of an entry
ExpiryPasses ==
  /\ lab = "gateway"
  /\ \E id \in DOMAIN resultExpires :
       /\ resultExpires[id] = "future"
       /\ resultExpires' = [resultExpires EXCEPT ![id] = "past"]
  /\ UNCHANGED <<lab, libVars, faults, restVars, uuids, submits, ackPos, resultCache, queries, req,
                 sarVars, sagaVars>>

\* sweeper, one tick: every entry whose expiry has passed is deleted from
\* both maps
sweeper ==
  /\ lab = "gateway"
  /\ \E id \in DOMAIN resultExpires : resultExpires[id] = "past"
  /\ LET swept == {id \in DOMAIN resultExpires : resultExpires[id] = "past"} IN
     /\ resultExpires' = [id \in DOMAIN resultExpires \ swept |-> resultExpires[id]]
     /\ resultCache' = [id \in DOMAIN resultCache \ swept |-> resultCache[id]]
  /\ UNCHANGED <<lab, libVars, faults, restVars, uuids, submits, ackPos, queries, req,
                 sarVars, sagaVars>>

\* the trace ids a client asks for: those it was given, and one it was not
QueryIds == {submits[i].trace_id : i \in {j \in DOMAIN submits : submits[j].code = 200}}
            \cup {"unknown"}

\* operationResultHandler is entered: GET /v1/operations/{trace_id}; the
\* context gets its 15 s deadline
QueryStart ==
  /\ lab = "gateway"
  /\ req.pc \in {"idle", "done"}
  /\ queries < MaxQueries
  /\ queries' = queries + 1
  /\ \E id \in QueryIds : req' = [NoReq EXCEPT !.pc = "poll", !.traceID = id]
  /\ UNCHANGED <<lab, libVars, faults, restVars, uuids, submits, ackPos, resultCache, resultExpires,
                 sarVars, sagaVars>>

\* top of the handler's loop: getAck; found: the ack is written (status 200)
QueryPoll ==
  /\ lab = "gateway"
  /\ req.pc = "poll"
  /\ LET r == getAck(Cache, req.traceID) IN
     req' = IF r.ok
            THEN [req EXCEPT !.pc = "done", !.code = 200, !.body = r.a]
            ELSE [req EXCEPT !.pc = "select"]
  /\ UNCHANGED <<lab, libVars, faults, restVars, uuids, submits, ackPos, resultCache, resultExpires,
                 queries, sarVars, sagaVars>>

\* the deadline of the request's context passes, or the client goes away,
\* while the handler runs; when the handler is waiting in select the 200 ms
\* timer may be due at the same moment
DeadlineFires ==
  /\ lab = "gateway"
  /\ req.pc \in {"poll", "select"}
  /\ ~req.ctxDone
  /\ \E tie \in {FALSE, req.pc = "select"} :
       req' = [req EXCEPT !.ctxDone = TRUE, !.tie = tie]
  /\ UNCHANGED <<lab, libVars, faults, restVars, uuids, submits, ackPos, resultCache, resultExpires,
                 queries, sarVars, sagaVars>>

\* a select that waits for the timer only
QuerySelect_TimerOnly ==
  /\ lab = "gateway"
  /\ req.pc = "select"
  /\ req' = [req EXCEPT !.pc = "poll", !.tie = FALSE]
  /\ UNCHANGED <<lab, libVars, faults, restVars, uuids, submits, ackPos, resultCache, resultExpires,
                 queries, sarVars, sagaVars>>

\* the select of the handler's loop: ctx.Done() answers 204; the timer
\* leads back to the top of the loop; when both are ready either is taken
QuerySelect ==
  /\ lab = "gateway"
  /\ req.pc = "select"
  /\ \/ /\ req.ctxDone
        /\ req' = [req EXCEPT !.pc = "done", !.code = 204, !.tie = FALSE]
     \/ /\ ~req.ctxDone \/ req.tie
        /\ req' = [req EXCEPT !.pc = "poll", !.tie = FALSE]
  /\ UNCHANGED <<lab, libVars, faults, restVars, uuids, submits, ackPos, resultCache, resultExpires,
                 queries, sarVars, sagaVars>>

NextGateway ==
  \/ enqueueCommand
  \/ ConsumeCommand
  \/ ProduceAck
  \/ MarkMessage
  \/ AckConsume
  \/ ExpiryPasses
  \/ sweeper
  \/ QueryStart
  \/ QueryPoll
  \/ DeadlineFires
  \/ QuerySelect

SpecGateway == InitGateway /\ [][NextGateway]_vars

\* The loops of the two processes keep running, the context's deadline
\* comes, and the request handler is scheduled.
FairGateway ==
  /\ WF_vars(ConsumeCommand)
  /\ WF_vars(ProduceAck)
  /\ WF_vars(MarkMessage)
  /\ WF_vars(AckConsume)
  /\ WF_vars(QueryPoll)
  /\ WF_vars(DeadlineFires)
  /\ WF_vars(QuerySelect)

SpecGatewayFair == SpecGateway /\ FairGateway

\* the same two processes when the consumer service can also die and come
\* back at its committed offset
NextGatewayRestart == NextGateway \/ Restart

SpecGatewayRestart == InitGateway /\ [][NextGatewayRestart]_vars

\* ================================================================ service
\* mockegen/message: the Service, which validates its input and passes it
\* on to a Repository (in the tests a mock that returns what it is told to).

\* number of calls made on the Service in a run
MaxServiceCalls == 2

\* the inputs of the calls
ServiceContents == {"", "   ", " hello ", "x"}
ServiceIds == {-1, 0, 1, 3}

ErrEmptyContent == "content cannot be empty"
ErrInvalidID == "id must be > 0"

\* the error the Repository returns: nil, or an error of its own
RepoErrors == {"", "db down"}

Message(id, content) == [ID |-> id, Content |-> content]

\* one call on the Repository
RepoCall(method, arg) == [method |-> method, arg |-> arg]

\* what a Service method hands back: the message, the error, and the calls
\* it made on the Repository
ServiceResult(msg, err, calls) == [msg |-> msg, err |-> err, calls |-> calls]

\* the (Message, error) the Repository returns for a call: the message as
\* stored, or the zero Message with the error e
RepoReturn(stored, e) == IF e = "" THEN stored ELSE Message(0, "")

ServiceCreate(content, e) ==
  LET c == TrimSpace(content) IN
  IF c = "" THEN ServiceResult(Message(0, ""), ErrEmptyContent, <<>>)
  ELSE ServiceResult(RepoReturn(Message(1, c), e), e,
                     <<RepoCall("Create", Message(0, c))>>)

ServiceGet(id, e) ==
  IF id <= 0 THEN ServiceResult(Message(0, ""), ErrInvalidID, <<>>)
  ELSE ServiceResult(RepoReturn(Message(id, "stored"), e), e,
                     <<RepoCall("GetByID", Message(id, ""))>>)

\* Update that validates the trimmed content but passes on the content as
\* it was given
ServiceUpdate_Untrimmed(id, content, e) ==
  IF id <= 0 THEN ServiceResult(Message(0, ""), ErrInvalidID, <<>>)
  ELSE IF TrimSpace(content) = ""
  THEN ServiceResult(Message(0, ""), ErrEmptyContent, <<>>)
  ELSE ServiceResult(RepoReturn(Message(id, content), e), e,
                     <<RepoCall("Update", Message(id, content))>>)

ServiceUpdate(id, content, e) ==
  LET c == TrimSpace(content) IN
  IF id <= 0 THEN ServiceResult(Message(0, ""), ErrInvalidID, <<>>)
  ELSE IF c = "" THEN ServiceResult(Message(0, ""), ErrEmptyContent, <<>>)
  ELSE ServiceResult(RepoReturn(Message(id, c), e), e,
                     <<RepoCall("Update", Message(id, c))>>)

ServiceDelete(id, e) ==
  IF id <= 0 THEN ServiceResult(Message(0, ""), ErrInvalidID, <<>>)
  ELSE ServiceResult(Message(0, ""), e, <<RepoCall("Delete", Message(id, ""))>>)

InitService ==
  /\ lab = "service"
  /\ faults = 0
  /\ commands = <<>>
  /\ RestIdle
  /\ SarIdle
  /\ SagaIdle
  /\ GwIdle
  /\ LibIdle

\* Each call on the Service is recorded with its input and its result.

\* svc.Create(ctx, content)
CallCreate ==
  /\ lab = "service"
  /\ Len(svcLog) < MaxServiceCalls
  /\ \E content \in ServiceContents, e \in RepoErrors :
       svcLog' = Append(svcLog, [op |-> "Create", id |-> 0, content |-> content,
                                r |-> ServiceCreate(content, e)])
  /\ UNCHANGED <<lab, faults, restVars, sarVars, sagaVars, gwVars, rwCtx, rwLoop,
                 orderVars, apiVars, cacheVars>>

\* svc.Get(ctx, id)
CallGet ==
  /\ lab = "service"
  /\ Len(svcLog) < MaxServiceCalls
  /\ \E id \in ServiceIds, e \in RepoErrors :
       svcLog' = Append(svcLog, [op |-> "Get", id |-> id, content |-> "",
                                r |-> ServiceGet(id, e)])
  /\ UNCHANGED <<lab, faults, restVars, sarVars, sagaVars, gwVars, rwCtx, rwLoop,
                 orderVars, apiVars, cacheVars>>

\* svc.Update(ctx, id, content)
CallUpdate ==
  /\ lab = "service"
  /\ Len(svcLog) < MaxServiceCalls
  /\ \E id \in ServiceIds, content \in ServiceContents, e \in RepoErrors :
       svcLog' = Append(svcLog, [op |-> "Update", id |-> id, content |-> content,
                                r |-> ServiceUpdate(id, content, e)])
  /\ UNCHANGED <<lab, faults, restVars, sarVars, sagaVars, gwVars, rwCtx, rwLoop,
                 orderVars, apiVars, cacheVars>>

\* svc.Delete(ctx, id)
CallDelete ==
  /\ lab = "service"
  /\ Len(svcLog) < MaxServiceCalls
  /\ \E id \in ServiceIds, e \in RepoErrors :
       svcLog' = Append(svcLog, [op |-> "Delete", id |-> id, content |-> "",
                                r |-> ServiceDelete(id, e)])
  /\ UNCHANGED <<lab, faults, restVars, sarVars, sagaVars, gwVars, rwCtx, rwLoop,
                 orderVars, apiVars, cacheVars>>

NextService == CallCreate \/ CallGet \/ CallUpdate \/ CallDelete

SpecService == InitService /\ [][NextService]_vars
\* ================================================================== order
\* tdd-with-gomock/internal/order: the Service, which charges through a
\* PaymentGateway and saves through an OrderRepo (in the tests both mocks).

\* number of PlaceOrder calls in a run
MaxOrderCalls == 2

\* AmountCents of the orders placed
OrderAmounts == {-1, 0, 1, 4999}

\* the errors the mocks are told to return: nil, or an error
ChargeErrors == {"", "card declined"}
SaveErrors == {"", "db down"}

\* the order of the tests with AmountCents a
OrderIn(a) == [ID |-> "ord_1", AmountCents |-> a, Currency |-> "INR",
               Status |-> "pending", PaymentTxID |-> ""]

\* fmt.Errorf(prefix + ": %w", err)
Wrap(prefix, err) == <<prefix, err>>

\* PlaceOrder that saves the order whether or not the charge went through
PlaceOrder_SavesUnpaid(o, source, chargeErr, saveErr) ==
  LET charge == [method |-> "Charge", amount |-> o.AmountCents, currency |-> o.Currency,
                 source |-> source]
      failed == [o EXCEPT !.Status = "failed"]
      paid == [o EXCEPT !.Status = "paid", !.PaymentTxID = "tx_ok"]
  IN
  IF o.AmountCents <= 0
  THEN [o |-> o, err |-> <<"invalid amount">>, calls |-> <<>>]
  ELSE IF chargeErr # ""
  THEN [o |-> failed, err |-> Wrap("charge failed", chargeErr),
        calls |-> <<charge, [method |-> "Save", o |-> failed]>>]
  ELSE [o |-> paid, err |-> IF saveErr # "" THEN Wrap("save failed", saveErr) ELSE <<>>,
        calls |-> <<charge, [method |-> "Save", o |-> paid]>>]

\* PlaceOrder with the errors Charge and Save return: the order and the
\* error it returns, and the calls it made on its collaborators
PlaceOrder(o, source, chargeErr, saveErr) ==
  LET charge == [method |-> "Charge", amount |-> o.AmountCents, currency |-> o.Currency,
                 source |-> source]
      failed == [o EXCEPT !.Status = "failed"]
      paid == [o EXCEPT !.Status = "paid", !.PaymentTxID = "tx_ok"]
  IN
  IF o.AmountCents <= 0
  THEN [o |-> o, err |-> <<"invalid amount">>, calls |-> <<>>]
  ELSE IF chargeErr # ""
  THEN [o |-> failed, err |-> Wrap("charge failed", chargeErr), calls |-> <<charge>>]
  ELSE [o |-> paid, err |-> IF saveErr # "" THEN Wrap("save failed", saveErr) ELSE <<>>,
        calls |-> <<charge, [method |-> "Save", o |-> paid]>>]

InitOrder ==
  /\ lab = "order"
  /\ faults = 0
  /\ commands = <<>>
  /\ RestIdle
  /\ SarIdle
  /\ SagaIdle
  /\ GwIdle
  /\ LibIdle

\* svc.PlaceOrder(ctx, in, source), recorded with its input and its result
PlaceOrderCall ==
  /\ lab = "order"
  /\ Len(orderLog) < MaxOrderCalls
  /\ \E a \in OrderAmounts, chargeErr \in ChargeErrors, saveErr \in SaveErrors :
       orderLog' = Append(orderLog,
                          [in |-> OrderIn(a), chargeErr |-> chargeErr, saveErr |-> saveErr,
                           r |-> PlaceOrder(OrderIn(a), "tok_visa", chargeErr, saveErr)])
  /\ UNCHANGED <<lab, faults, restVars, sarVars, sagaVars, gwVars, svcLog, rwCtx, rwLoop,
                 apiVars, cacheVars>>

NextOrder == PlaceOrderCall

SpecOrder == InitOrder /\ [][NextOrder]_vars

\* ------------------------------------------------------------------ cache
\* The result cache of the gateway with its mutex, statement by statement:
\* the ack consumer (putAck), the sweeper and the handlers of
\* GET /v1/operations/{trace_id} (getAck) run as goroutines over
\* resultCache and resultExpires. Here resultExpires holds instants.

\* number of putAck calls in a run
MaxPuts == 2
\* the instant at which the clock of a run stops
MaxClock == 3
\* cacheTTL, 2 * time.Minute, in minutes
cacheTTL == 2
\* the zero time.Time, which getAck reads when resultExpires has no entry
ZeroTime == -1

CacheIds == {"t1", "t2"}
Readers == {"reader1", "reader2"}
\* the acks the consumer takes from the acks topic
CacheAcks == [trace_id : CacheIds, status : {"SUCCESS", "FAILED"}]
ReaderIdle == [pc |-> "idle", id |-> "", ok |-> FALSE, a |-> <<>>, exp |-> ZeroTime,
               seen |-> <<>>, ret |-> <<>>]

InitCache ==
  /\ lab = "cache"
  /\ faults = 0
  /\ commands = <<>>
  /\ RestIdle
  /\ SarIdle
  /\ SagaIdle
  /\ GwIdle
  /\ svcLog = <<>>
  /\ rwCtx = "live"
  /\ rwLoop = <<>>
  /\ OrderIdle
  /\ ApiIdle
  /\ cacheMu = [w |-> "", r |-> {}]
  /\ cacheRun = [consumer |-> [pc |-> "idle", a |-> <<>>],
                 sweeper |-> [pc |-> "idle", todo |-> {}, k |-> ""],
                 readers |-> [r \in Readers |-> ReaderIdle]]
  /\ cacheHist = [now |-> 0, puts |-> 0, last |-> <<>>]

\* a map with key k set to v, and with key k deleted
MapSet(f, k, v) == [x \in DOMAIN f \cup {k} |-> IF x = k THEN v ELSE f[x]]
MapDelete(f, k) == [x \in DOMAIN f \ {k} |-> f[x]]

\* time passes
Tick ==
  /\ lab = "cache"
  /\ cacheHist.now < MaxClock
  /\ cacheHist' = [cacheHist EXCEPT !.now = @ + 1]
  /\ UNCHANGED <<lab, faults, restVars, sarVars, sagaVars, gwVars, svcLog, rwCtx, rwLoop,
                 orderVars, apiVars, cacheMu, cacheRun>>

\* putAck(a) is called and gets cacheMu.Lock(): no reader, no writer
putAckLock ==
  /\ lab = "cache"
  /\ cacheRun.consumer.pc = "idle"
  /\ cacheHist.puts < MaxPuts
  /\ cacheMu.w = "" /\ cacheMu.r = {}
  /\ cacheMu' = [cacheMu EXCEPT !.w = "consumer"]
  /\ \E a \in CacheAcks :
       cacheRun' = [cacheRun EXCEPT !.consumer = [pc |-> "cache", a |-> <<a>>]]
  /\ UNCHANGED <<lab, faults, restVars, sarVars, sagaVars, gwVars, svcLog, rwCtx, rwLoop,
                 orderVars, apiVars, cacheHist>>

\* resultCache[a.TraceID] = a
putAckCache ==
  /\ lab = "cache"
  /\ cacheRun.consumer.pc = "cache"
  /\ LET a == cacheRun.consumer.a[1] IN
     resultCache' = MapSet(resultCache, a.trace_id, a)
  /\ cacheRun' = [cacheRun EXCEPT !.consumer.pc = "expires"]
  /\ UNCHANGED <<lab, faults, restVars, sarVars, sagaVars, uuids, submits, ackPos,
                 resultExpires, queries, req, svcLog, rwCtx, rwLoop, orderVars, apiVars,
                 cacheMu, cacheHist>>

\* resultExpires[a.TraceID] = time.Now().Add(cacheTTL); cacheMu.Unlock()
putAckExpires ==
  /\ lab = "cache"
  /\ cacheRun.consumer.pc = "expires"
  /\ LET a == cacheRun.consumer.a[1] IN
     /\ resultExpires' = MapSet(resultExpires, a.trace_id, cacheHist.now + cacheTTL)
     /\ cacheHist' = [cacheHist EXCEPT !.puts = @ + 1,
                                       !.last = MapSet(@, a.trace_id,
                                                       [a |-> a, at |-> cacheHist.now])]
  /\ cacheMu' = [cacheMu EXCEPT !.w = ""]
  /\ cacheRun' = [cacheRun EXCEPT !.consumer = [pc |-> "idle", a |-> <<>>]]
  /\ UNCHANGED <<lab, faults, restVars, sarVars, sagaVars, uuids, submits, ackPos,
                 resultCache, queries, req, svcLog, rwCtx, rwLoop, orderVars, apiVars>>

\* a tick of the sweeper: cacheMu.Lock(), and the range over resultExpires
\* begins
sweeperLock ==
  /\ lab = "cache"
  /\ cacheRun.sweeper.pc = "idle"
  /\ cacheMu.w = "" /\ cacheMu.r = {}
  /\ cacheMu' = [cacheMu EXCEPT !.w = "sweeper"]
  /\ cacheRun' = [cacheRun EXCEPT !.sweeper = [pc |-> "range", todo |-> DOMAIN resultExpires,
                                               k |-> ""]]
  /\ UNCHANGED <<lab, faults, restVars, sarVars, sagaVars, gwVars, svcLog, rwCtx, rwLoop,
                 orderVars, apiVars, cacheHist>>

\* a sweeper that deletes every entry it visits
sweeperVisit_DeletesAll ==
  /\ lab = "cache"
  /\ cacheRun.sweeper.pc = "range"
  /\ \E k \in cacheRun.sweeper.todo :
       /\ resultExpires' = MapDelete(resultExpires, k)
       /\ cacheRun' = [cacheRun EXCEPT !.sweeper = [pc |-> "delete", k |-> k,
                                                    todo |-> cacheRun.sweeper.todo \ {k}]]
  /\ UNCHANGED <<lab, faults, restVars, sarVars, sagaVars, uuids, submits, ackPos,
                 resultCache, queries, req, svcLog, rwCtx, rwLoop, orderVars, apiVars,
                 cacheMu, cacheHist>>

\* the range yields the next key k with its time t; when time.Now() is
\* after t, delete(resultExpires, k)
sweeperVisit ==
  /\ lab = "cache"
  /\ cacheRun.sweeper.pc = "range"
  /\ \E k \in cacheRun.sweeper.todo :
       IF cacheHist.now > resultExpires[k]
       THEN /\ resultExpires' = MapDelete(resultExpires, k)
            /\ cacheRun' = [cacheRun EXCEPT !.sweeper = [pc |-> "delete", k |-> k,
                                                         todo |-> cacheRun.sweeper.todo \ {k}]]
       ELSE /\ resultExpires' = resultExpires
            /\ cacheRun' = [cacheRun EXCEPT !.sweeper.todo = @ \ {k}]
  /\ UNCHANGED <<lab, faults, restVars, sarVars, sagaVars, uuids, submits, ackPos,
                 resultCache, queries, req, svcLog, rwCtx, rwLoop, orderVars, apiVars,
                 cacheMu, cacheHist>>

\* delete(resultCache, k), the statement after delete(resultExpires, k)
sweeperDeleteCache ==
  /\ lab = "cache"
  /\ cacheRun.sweeper.pc = "delete"
  /\ resultCache' = MapDelete(resultCache, cacheRun.sweeper.k)
  /\ cacheRun' = [cacheRun EXCEPT !.sweeper.pc = "range", !.sweeper.k = ""]
  /\ UNCHANGED <<lab, faults, restVars, sarVars, sagaVars, uuids, submits, ackPos,
                 resultExpires, queries, req, svcLog, rwCtx, rwLoop, orderVars, apiVars,
                 cacheMu, cacheHist>>

\* the range is over: cacheMu.Unlock(), until the next tick
sweeperUnlock ==
  /\ lab = "cache"
  /\ cacheRun.sweeper.pc = "range"
  /\ cacheRun.sweeper.todo = {}
  /\ cacheMu' = [cacheMu EXCEPT !.w = ""]
  /\ cacheRun' = [cacheRun EXCEPT !.sweeper.pc = "idle"]
  /\ UNCHANGED <<lab, faults, restVars, sarVars, sagaVars, gwVars, svcLog, rwCtx, rwLoop,
                 orderVars, apiVars, cacheHist>>

\* getAck(id) is called by handler r and gets cacheMu.RLock(): no writer
getAckRLock(r) ==
  /\ lab = "cache"
  /\ cacheRun.readers[r].pc = "idle"
  /\ cacheMu.w = ""
  /\ cacheMu' = [cacheMu EXCEPT !.r = @ \cup {r}]
  /\ \E id \in CacheIds :
       cacheRun' = [cacheRun EXCEPT !.readers[r] = [ReaderIdle EXCEPT !.pc = "rlocked", !.id = id]]
  /\ UNCHANGED <<lab, faults, restVars, sarVars, sagaVars, gwVars, svcLog, rwCtx, rwLoop,
                 orderVars, apiVars, cacheHist>>

\* a, ok := resultCache[id]; exp := resultExpires[id]; cacheMu.RUnlock().
\* seen records what was last put for id when the two maps were read.
getAckRead(r) ==
  /\ lab = "cache"
  /\ cacheRun.readers[r].pc = "rlocked"
  /\ LET id == cacheRun.readers[r].id
         ok == id \in DOMAIN resultCache IN
     cacheRun' = [cacheRun EXCEPT !.readers[r].pc = "check",
                                  !.readers[r].ok = ok,
                                  !.readers[r].a = IF ok THEN <<resultCache[id]>> ELSE <<>>,
                                  !.readers[r].exp = IF id \in DOMAIN resultExpires
                                                     THEN resultExpires[id] ELSE ZeroTime,
                                  !.readers[r].seen = IF id \in DOMAIN cacheHist.last
                                                      THEN <<cacheHist.last[id]>> ELSE <<>>]
  /\ cacheMu' = [cacheMu EXCEPT !.r = @ \ {r}]
  /\ UNCHANGED <<lab, faults, restVars, sarVars, sagaVars, gwVars, svcLog, rwCtx, rwLoop,
                 orderVars, apiVars, cacheHist>>

\* getAck that returns what it found in resultCache without looking at the
\* time
getAckReturn_IgnoresExpiry(r) ==
  /\ lab = "cache"
  /\ cacheRun.readers[r].pc = "check"
  /\ LET me == cacheRun.readers[r] IN
     cacheRun' = [cacheRun EXCEPT !.readers[r] =
                    [ReaderIdle EXCEPT !.ret = IF ~me.ok
                                               THEN <<[ok |-> FALSE, a |-> <<>>]>>
                                               ELSE <<[ok |-> TRUE, a |-> me.a]>>]]
  /\ UNCHANGED <<lab, faults, restVars, sarVars, sagaVars, gwVars, svcLog, rwCtx, rwLoop,
                 orderVars, apiVars, cacheMu, cacheHist>>

\* if !ok || time.Now().After(exp) { return Ack{}, false }; return a, true.
\* ret keeps what the call returned until the handler calls again.
getAckReturn(r) ==
  /\ lab = "cache"
  /\ cacheRun.readers[r].pc = "check"
  /\ LET me == cacheRun.readers[r] IN
     cacheRun' = [cacheRun EXCEPT !.readers[r] =
                    [ReaderIdle EXCEPT !.ret = IF ~me.ok \/ cacheHist.now > me.exp
                                               THEN <<[ok |-> FALSE, a |-> <<>>]>>
                                               ELSE <<[ok |-> TRUE, a |-> me.a]>>]]
  /\ UNCHANGED <<lab, faults, restVars, sarVars, sagaVars, gwVars, svcLog, rwCtx, rwLoop,
                 orderVars, apiVars, cacheMu, cacheHist>>

NextCache ==
  \/ Tick
  \/ putAckLock
  \/ putAckCache
  \/ putAckExpires
  \/ sweeperLock
  \/ sweeperVisit
  \/ sweeperDeleteCache
  \/ sweeperUnlock
  \/ \E r \in Readers : getAckRLock(r)
  \/ \E r \in Readers : getAckRead(r)
  \/ \E r \in Readers : getAckReturn(r)

SpecCache == InitCache /\ [][NextCache]_vars

\* -------------------------------------------------------------------- api
\* go-swagger-demo: the handlers of the Messages API over the package
\* variable store, one request after the other.

\* number of requests in a run
MaxApiRequests == 3

\* the :id path parameters clients send
ApiPathIds == {"abc", "0", "1", "2", "3"}
\* id, _ := strconv.Atoi(c.Param("id")): 0 for what is no number
PathId(p) == Atoi(p).n
\* request bodies: one that does not bind, and Messages with and without
\* text; the ID of a payload is optional
ApiPayloads ==
  {[binds |-> FALSE, ID |-> 0, Message |-> ""]}
    \cup [binds : {TRUE}, ID : {0, 1}, Message : {"", "hi"}]
ApiMessage(id, text) == [ID |-> id, Message |-> text]
ErrInvalidPayload == [error |-> "invalid payload"]
ErrNotFound == [error |-> "not found"]

InitApi ==
  /\ lab = "api"
  /\ faults = 0
  /\ commands = <<>>
  /\ RestIdle
  /\ SarIdle
  /\ SagaIdle
  /\ GwIdle
  /\ svcLog = <<>>
  /\ rwCtx = "live"
  /\ rwLoop = <<>>
  /\ OrderIdle
  /\ CacheIdle
  /\ store = (1 :> ApiMessage(1, "hello")) @@ (2 :> ApiMessage(2, "namaste"))
  /\ resp = <<>>

\* the response written for a request
Respond(op, code, body) == Append(resp, [op |-> op, code |-> code, body |-> body])

\* GET /v1/messages
listMessages ==
  /\ lab = "api"
  /\ Len(resp) < MaxApiRequests
  /\ resp' = Respond("list", 200, {store[k] : k \in DOMAIN store})
  /\ UNCHANGED <<lab, faults, restVars, sarVars, sagaVars, gwVars, svcLog, rwCtx, rwLoop,
                 orderVars, cacheVars, store>>

\* GET /v1/message/:id
getMessageByID ==
  /\ lab = "api"
  /\ Len(resp) < MaxApiRequests
  /\ \E p \in ApiPathIds :
       LET id == PathId(p) IN
       resp' = IF id \notin DOMAIN store
               THEN Respond("get", 404, ErrNotFound)
               ELSE Respond("get", 200, store[id])
  /\ UNCHANGED <<lab, faults, restVars, sarVars, sagaVars, gwVars, svcLog, rwCtx, rwLoop,
                 orderVars, cacheVars, store>>

\* POST /v1/message: next := len(store) + 1; in.ID = next; store[next] = in
createMessage ==
  /\ lab = "api"
  /\ Len(resp) < MaxApiRequests
  /\ \E in \in ApiPayloads :
       IF ~in.binds \/ in.Message = ""
       THEN /\ resp' = Respond("create", 400, ErrInvalidPayload)
            /\ store' = store
       ELSE LET next == Cardinality(DOMAIN store) + 1
                out == ApiMessage(next, in.Message) IN
            /\ store' = MapSet(store, next, out)
            /\ resp' = Respond("create", 201, out)
  /\ UNCHANGED <<lab, faults, restVars, sarVars, sagaVars, gwVars, svcLog, rwCtx, rwLoop,
                 orderVars, cacheVars>>

\* PUT /v1/message/:id
updateMessage ==
  /\ lab = "api"
  /\ Len(resp) < MaxApiRequests
  /\ \E p \in ApiPathIds, in \in ApiPayloads :
       LET id == PathId(p) IN
       IF id \notin DOMAIN store
       THEN /\ resp' = Respond("update", 404, ErrNotFound)
            /\ store' = store
       ELSE IF ~in.binds \/ in.Message = ""
       THEN /\ resp' = Respond("update", 400, ErrInvalidPayload)
            /\ store' = store
       ELSE /\ store' = MapSet(store, id, ApiMessage(id, in.Message))
            /\ resp' = Respond("update", 200, ApiMessage(id, in.Message))
  /\ UNCHANGED <<lab, faults, restVars, sarVars, sagaVars, gwVars, svcLog, rwCtx, rwLoop,
                 orderVars, cacheVars>>

\* DELETE /v1/message/:id
deleteMessage ==
  /\ lab = "api"
  /\ Len(resp) < MaxApiRequests
  /\ \E p \in ApiPathIds :
       LET id == PathId(p) IN
       IF id \notin DOMAIN store
       THEN /\ resp' = Respond("delete", 404, ErrNotFound)
            /\ store' = store
       ELSE /\ store' = MapDelete(store, id)
            /\ resp' = Respond("delete", 204, <<>>)
  /\ UNCHANGED <<lab, faults, restVars, sarVars, sagaVars, gwVars, svcLog, rwCtx, rwLoop,
                 orderVars, cacheVars>>

NextApi ==
  \/ listMessages
  \/ getMessageByID
  \/ createMessage
  \/ updateMessage
  \/ deleteMessage

SpecApi == InitApi /\ [][NextApi]_vars
\* the labs whose services consume a topic that any producer may write
Init == InitRest \/ InitSarama \/ InitSaga
Next == NextRest \/ NextSarama \/ NextSaga
Spec == Init /\ [][Next]_vars

\* ================================================================= claims
IsMutation(cmd) == cmd.command \in {"Create", "Update", "Delete"}

\* C1: for every idempotency key (the record key, or the trace_id when the
\* key is empty) at most one mutation of the messages table is committed,
\* however often the command is delivered.
C1_AtMostOneEffectPerKey == \A k \in DOMAIN effects : effects[k] <= 1

\* C1 witness: the record at pos was applied and committed, the consumer
\* restarted before the offset was marked, and the redelivery of the same
\* record ran its transaction without mutating anything.
C1_Witness ==
  /\ lab = "rest"
  /\ crashes >= 1
  /\ pc = "ack"
  /\ pos \notin markedOffsets
  /\ IsMutation(commands[pos].value)
  /\ cur.fault = "none" /\ ~cur.mutated
  /\ cur.key \in DOMAIN effects /\ effects[cur.key] = 1

\* C2: no offset of a command is marked unless the ack for that command was
\* produced successfully; a failed ack produce leaves the offset unmarked.
C2_NoMarkBeforeAck == markedOffsets \subseteq ackedOffsets

\* C6: two deliveries of the same Create command (same key, same value),
\* both without a database failure, leave one messages row for the key and
\* two acks that are SUCCESS and equal in trace_id, status, event, payload.
C6_DuplicateCreateSameAck ==
  \A i, j \in DOMAIN acks :
     ( /\ i < j
       /\ ackInfo[i].cmd.command = "Create"
       /\ ackInfo[i].cmd = ackInfo[j].cmd
       /\ ackInfo[i].key = ackInfo[j].key
       /\ ackInfo[i].fault = "none" /\ ackInfo[j].fault = "none" )
     => /\ effects[ackInfo[i].key] = 1
        /\ acks[i].value.status = "SUCCESS"
        /\ acks[j].value = acks[i].value

HasHeader(headers, k) == \E i \in DOMAIN headers : headers[i].key = k
IsPrefix(a, b) == Len(a) <= Len(b) /\ \A i \in DOMAIN a : a[i] = b[i]

\* the headers of the record the processor consumed, from a record it forwarded
ForwardedFrom(headers) == SubSeq(headers, 1, Len(headers) - 2)
\* the attempt header the processor appended to a record it forwarded
WrittenAttempt(headers) == headers[Len(headers) - 1].value

\* C3: a record that arrives without attempt header and fails on every
\* delivery is forwarded to retry.5s, retry.30s, retry.2m in that order,
\* once each, and then once to the DLQ.
C3_StagesInOrderThenDlq ==
  lab = "sarama" =>
    \A b \in DOMAIN hops :
      topics[MainTopic][b].headers = <<ContentType>>
      => IsPrefix(hops[b], <<Stages[1].Topic, Stages[2].Topic, Stages[3].Topic, DlqTopic>>)

\* C4: when processing fails for a record whose attempt k is below the
\* number of stages and the publish succeeds, the processor appends exactly
\* one record, to Stages[k], with the inbound key and value and the inbound
\* headers followed by x-retry-attempt = k+1 and x-error; the DLQ and every
\* other topic stay as they are.
C4_FailureGoesToNextStage ==
  [][ ( /\ lab = "sarama"
        /\ procPos' = procPos + 1
        /\ faults' = faults
        /\ ~businessLogic(topics[MainTopic][procPos])
        /\ parseAttempt(topics[MainTopic][procPos].headers) \in 0..(Len(Stages) - 1) )
      => LET msg == topics[MainTopic][procPos]
             k == parseAttempt(msg.headers) IN
         topics' = [topics EXCEPT ![Stages[k + 1].Topic] =
                      Append(@, [key |-> msg.key, value |-> msg.value,
                                 headers |-> msg.headers \o
                                   <<Header(HeaderAttempt, Itoa(k + 1)),
                                     Header(HeaderError, ErrText)>>])]
    ]_vars

\* C4 witness: a record read with attempt 1 was forwarded to the second stage
C4_Witness ==
  /\ lab = "sarama"
  /\ \E i \in DOMAIN topics[Stages[2].Topic] :
       topics[Stages[2].Topic][i].headers =
         <<ContentType, Header(HeaderAttempt, "1"), Header(HeaderError, ErrText),
           Header(HeaderAttempt, "2"), Header(HeaderError, ErrText)>>

C8_DlqOnlyAtStageCount ==
  lab = "sarama" =>
    \A i \in DOMAIN topics[DlqTopic] :
      LET h == topics[DlqTopic][i].headers IN
      /\ parseAttempt(ForwardedFrom(h)) = Len(Stages)
      /\ WrittenAttempt(h) = Itoa(Len(Stages))

\* C8 amended: a record is on the DLQ only if the attempt read from the
\* consumed record is at least the number of stages, and the attempt header
\* written on it is the attempt that was read.
C8_DlqOnlyWhenStagesExhausted ==
  lab = "sarama" =>
    \A i \in DOMAIN topics[DlqTopic] :
      LET h == topics[DlqTopic][i].headers IN
      /\ parseAttempt(ForwardedFrom(h)) >= Len(Stages)
      /\ h[Len(h) - 1].key = HeaderAttempt
      /\ WrittenAttempt(h) = Itoa(parseAttempt(ForwardedFrom(h)))

\* C8 witness: the processor put a record read with attempt 3 on the DLQ
C8_Witness ==
  /\ lab = "sarama"
  /\ \E i \in DOMAIN topics[DlqTopic] :
       /\ parseAttempt(ForwardedFrom(topics[DlqTopic][i].headers)) = Len(Stages)
       /\ topics[DlqTopic][i].value.prefix = "fail:"

\* the records appended to a topic of `new` all carry key k
AppendedWithKey(old, new, k) ==
  \A t \in DOMAIN new : \A i \in (Len(old[t]) + 1)..Len(new[t]) : new[t][i].key = k

HasOriginalTopic(headers) ==
  \E i \in DOMAIN headers :
    headers[i].key \in {HeaderOriginalTopic, "original_topic"} /\ headers[i].value # ""

\* C7: every record the retry/DLQ processor or the saga step service puts on
\* its DLQ topic carries a non-empty original-topic header.
C7_DlqHasOriginalTopic ==
  /\ lab = "sarama" =>
       \A i \in DOMAIN topics[DlqTopic] : HasOriginalTopic(topics[DlqTopic][i].headers)
  /\ lab = "saga" =>
       \A i \in DOMAIN sagaTopics[SagaDlq] :
         i > sagaEnv.seeded => HasOriginalTopic(sagaTopics[SagaDlq][i].headers)

\* C9: every record produced while handling a consumed record - to a retry
\* topic or the DLQ by the processor, to the main topic by the retry worker,
\* to the next step or the DLQ by the step service, to the replay
\* destination by the replayer - carries the key of the consumed record.
C9_KeyPreservedOnEveryHop ==
  [][ /\ (lab = "sarama" /\ procPos' # procPos)
         => AppendedWithKey(topics, topics', topics[MainTopic][procPos].key)
      /\ \A t \in RetryTopics :
           (lab = "sarama" /\ rwPos'[t] # rwPos[t])
           => AppendedWithKey(topics, topics', topics[t][rwPos[t]].key)
      /\ (lab = "saga" /\ stepPos' # stepPos)
         => AppendedWithKey(sagaTopics, sagaTopics', sagaTopics[TopicIn][stepPos].key)
      /\ (lab = "saga" /\ replayPos' # replayPos)
         => AppendedWithKey(sagaTopics, sagaTopics', sagaTopics[SagaDlq][replayPos].key)
    ]_vars

\* C9 witness: a record that the processor forwarded and the retry worker
\* requeued is on the main topic, and the processor forwarded it again
C9_Witness ==
  /\ lab = "sarama"
  /\ \E i \in DOMAIN topics[MainTopic] :
       /\ HasHeader(topics[MainTopic][i].headers, HeaderError)
       /\ i < procPos
       /\ Len(hops[topics[MainTopic][i].value.body]) >= 2

\* C10: when the replayer republishes a DLQ message that carries an
\* x-original-topic header, it appends one message with the same key, value
\* and headers to the topic that header names, whatever REPLAY_TARGET is.
C10_ReplayToOriginalTopic ==
  [][ ( /\ lab = "saga"
        /\ replayPos' = replayPos + 1
        /\ replays' = replays + 1 )
      => LET m == sagaTopics[SagaDlq][replayPos] IN
         HasHeader(m.headers, HeaderOriginalTopic)
         => \E i \in DOMAIN m.headers :
              /\ m.headers[i].key = HeaderOriginalTopic
              /\ sagaTopics' = [sagaTopics EXCEPT ![m.headers[i].value] = Append(@, m)]
    ]_vars

\* C10 witness: with REPLAY_TARGET configured, a message the step service
\* quarantined was republished to TOPIC_IN, the topic its header names
C10_Witness ==
  /\ lab = "saga"
  /\ sagaEnv.REPLAY_TARGET = ReplayTarget
  /\ replays >= 1
  /\ \E i \in DOMAIN sagaTopics[TopicIn] :
       HasHeader(sagaTopics[TopicIn][i].headers, HeaderOriginalTopic)

\* C11: the replayer's group has not committed the offset of a DLQ message
\* whose replay produce failed, so that message is read again.
C11_FailedReplayNotCommitted ==
  lab = "saga" => \A o \in replayFailed : replayCommitted <= o

\* C12: a consumed record that cannot be decoded is not dropped. The step
\* service has put every undecodable message it went past on the DLQ topic;
\* the command consumer, whose only producer writes to the acks topic, has
\* produced a record for every undecodable command it went past.
C12_MalformedGoesToDlq ==
  /\ lab = "saga" =>
       \A o \in 1..(stepPos - 1) :
         ~sagaTopics[TopicIn][o].value.wellformed
         => \E i \in DOMAIN sagaTopics[SagaDlq] :
              /\ sagaTopics[SagaDlq][i].key = sagaTopics[TopicIn][o].key
              /\ sagaTopics[SagaDlq][i].value = sagaTopics[TopicIn][o].value
  /\ lab = "rest" =>
       \A o \in 1..(pos - 1) :
         ~commands[o].value.ok => \E i \in DOMAIN ackInfo : ackInfo[i].off = o

\* C13: a delivery whose withTx call returned an error (db.Begin, the
\* idempotency statements or tx.Commit failed) is handed to the retry path:
\* the handler does not go on to build an ack for it, and no ack on the acks
\* topic answers such a delivery.
C13_TransientErrorNotAcked ==
  lab = "rest" =>
    /\ pc = "ack" => cur.fault \notin {"begin", "commit"}
    /\ \A i \in DOMAIN acks : ackInfo[i].fault \notin {"begin", "commit"}

\* C14: when the consumer runs a Read, Update or Delete whose id has no row
\* (first processing of its key, no injected failure), the transaction
\* leaves messages as it is and the outcome is FAILURE with error
\* NOT_FOUND, detail "id=<id>"; the ack produced for it carries that
\* outcome, and the offset is then marked, so the command is not delivered
\* again; the consumer produces nothing but that ack.
C14_AbsentIdIsNotFound ==
  [][ lab = "rest" =>
      LET msg == commands[pos]
          cmd == msg.value IN
      /\ ( /\ pc = "recv" /\ pc' = "ack"
           /\ cur'.fault = "none"
           /\ cmd.command \in {"Read", "Update", "Delete"}
           /\ cmd.id \notin DOMAIN messages
           /\ IdempotencyKey(msg) \notin DOMAIN idempotency_keys )
         => /\ messages' = messages
            /\ cur'.status = "FAILURE"
            /\ cur'.e = [Code |-> "NOT_FOUND", Detail |-> <<"id=", cmd.id>>]
            /\ acks' = acks
      /\ ( pc = "ack" /\ pc' = "mark" /\ cur.e.Code = "NOT_FOUND" /\ acks' # acks )
         => /\ Len(acks') = Len(acks) + 1
            /\ acks'[Len(acks')].value.trace_id = cmd.trace_id
            /\ acks'[Len(acks')].value.status = "FAILURE"
            /\ acks'[Len(acks')].value.error = cur.e
      /\ ( pc = "mark" /\ pc' = "recv" /\ crashes' = crashes /\ cur.e.Code = "NOT_FOUND" )
         => marked' >= pos + 1
    ]_vars

\* C14 witness: a Delete of an absent id was answered FAILURE / NOT_FOUND
\* and its offset was marked
C14_Witness ==
  /\ lab = "rest"
  /\ \E i \in DOMAIN acks :
       /\ ackInfo[i].cmd.command = "Delete"
       /\ acks[i].value.status = "FAILURE"
       /\ acks[i].value.error = [Code |-> "NOT_FOUND", Detail |-> <<"id=", ackInfo[i].cmd.id>>]
       /\ ackInfo[i].off \in markedOffsets
       /\ messages = <<>>

\* C15: every ack that answers a delivery of a command whose idempotency
\* key is recorded with last_status FAILURE has status FAILURE (deliveries
\* without injected failure), and no effect was applied under that key.
C15_RecordedFailureAckedAsFailure ==
  lab = "rest" =>
    \A i \in DOMAIN acks :
      ( /\ ackInfo[i].fault = "none"
        /\ ackInfo[i].key \in DOMAIN idempotency_keys
        /\ idempotency_keys[ackInfo[i].key].last_status = "FAILURE" )
      => /\ acks[i].value.status = "FAILURE"
         /\ ackInfo[i].key \notin DOMAIN effects

\* the saga_log rows with trace id t and a terminal status
TerminalRows(t) ==
  {j \in DOMAIN saga_log :
     saga_log[j].trace_id = t /\ saga_log[j].status \in {"SUCCESS", "FAILURE"}}

\* C16: for every command whose processing reached an outcome that was
\* acked (its transaction did not fail), saga_log holds exactly one row with
\* the command's trace id and a terminal status, however often the command
\* was delivered. Commands that share their trace id with another record
\* of the topic are left out.
C16_OneTerminalSagaRow ==
  lab = "rest" =>
    \A i \in DOMAIN acks :
      ( /\ ackInfo[i].fault = "none"
        /\ \A o \in DOMAIN commands :
             o # ackInfo[i].off => commands[o].value.trace_id # ackInfo[i].cmd.trace_id )
      => Cardinality(TerminalRows(ackInfo[i].cmd.trace_id)) = 1

\* the idempotency keys of the commands on the topic
CommandKeys == {IdempotencyKey(commands[o]) : o \in {p \in DOMAIN commands : commands[p].value.ok}}

Accepted(n) == n \in DOMAIN submits /\ submits[n].code = 200

\* the result cache holds an ack with the trace id given for the n-th submit
CachedFor(n) ==
  /\ n \in DOMAIN submits
  /\ submits[n].trace_id \in DOMAIN resultCache
  /\ resultCache[submits[n].trace_id].trace_id = submits[n].trace_id

\* the ack consumer has gone past an ack for the n-th submit
AckHandled(n) ==
  \E i \in 1..(ackPos - 1) : acks[i].value.trace_id = submits[n].trace_id

\* C18: as long as no produce and no DB call fails, every command the
\* gateway enqueued leads to an ack with its trace id in the result cache
\* (stated from the states in which the ack consumer has not yet handled
\* that ack: later the entry expires and is swept);
\* and a result query whose poll finds that entry cached and unexpired
\* answers 200 with that ack.
C18_EnqueuedLeadsToCachedAck ==
  /\ \A n \in 1..MaxEnqueues :
       (lab = "gateway" /\ Accepted(n) /\ ~AckHandled(n) /\ faults = 0)
         ~> (CachedFor(n) \/ faults > 0)
  /\ [][ ( /\ lab = "gateway"
           /\ req.pc = "poll" /\ req'.pc # "poll"
           /\ req.traceID \in DOMAIN resultCache
           /\ resultExpires[req.traceID] = "future" )
         => /\ req'.pc = "done"
            /\ req'.code = 200
            /\ req'.body = <<resultCache[req.traceID]>>
            /\ req'.body[1].trace_id = req.traceID
       ]_vars

\* C18 witness: without any failure the ack of an enqueued command was
\* cached and a result query for its trace id was answered with it
C18_Witness ==
  /\ lab = "gateway"
  /\ faults = 0
  /\ CachedFor(1)
  /\ req.pc = "done"
  /\ req.code = 200
  /\ req.traceID = submits[1].trace_id

\* C19: a result query answers 200 with the ack only for a cached, unexpired
\* entry, 410 when the entry of the trace id has its expiry behind it, and
\* 204 otherwise.
C19_ResultCodes ==
  [][ (lab = "gateway" /\ req.pc # "done" /\ req'.pc = "done") =>
      LET id == req.traceID
          elapsed == id \in DOMAIN resultExpires /\ resultExpires[id] = "past" IN
      /\ req'.code \in {200, 204, 410}
      /\ req'.code = 200 => /\ id \in DOMAIN resultCache
                            /\ ~elapsed
                            /\ req'.body = <<resultCache[id]>>
      /\ elapsed <=> req'.code = 410
    ]_vars

\* C20: a result query that was started is answered; a poll that finds the
\* ack answers with it at once; 204 is answered only after the deadline (or
\* the cancellation) fired; and once that has fired and is seen at the
\* select, the handler answers without another wait.
C20_LongPollTerminates ==
  /\ (lab = "gateway" /\ req.pc \in {"poll", "select"}) ~> (req.pc = "done")
  /\ [][ lab = "gateway" =>
         /\ ( /\ req.pc = "poll" /\ req'.pc # "poll"
              /\ req.traceID \in DOMAIN resultCache
              /\ resultExpires[req.traceID] = "future" )
            => (req'.pc = "done" /\ req'.code = 200)
         /\ (req.pc # "done" /\ req'.pc = "done" /\ req'.code = 204) => req.ctxDone
         /\ (req.pc = "select" /\ req.ctxDone /\ ~req.tie /\ req' # req)
            => (req'.pc = "done" /\ req'.code = 204)
       ]_vars

\* C20 witness: a query that found no ack was answered 204 after its
\* deadline fired
C20_Witness ==
  /\ lab = "gateway"
  /\ req.pc = "done"
  /\ req.code = 204
  /\ req.ctxDone

\* the commands on the topic that carry trace id t
EnqueuedWith(t) == {i \in DOMAIN commands : commands[i].value.trace_id = t}

\* C21: when the produce to the commands topic fails the gateway answers 503
\* without PENDING and without trace id, and every PENDING response names
\* the trace id of a command that is on the commands topic.
C21_FailedEnqueueIs503 ==
  /\ [](\A i \in DOMAIN submits :
          submits[i].status = "PENDING" => EnqueuedWith(submits[i].trace_id) # {})
  /\ [][Len(submits') = Len(submits) + 1 =>
          LET r == submits'[Len(submits')] IN
          /\ commands' = commands =>
               r.code = 503 /\ r.status # "PENDING" /\ r.trace_id = ""
          /\ r.status = "PENDING" =>
               /\ Len(commands') = Len(commands) + 1
               /\ commands'[Len(commands')].value.trace_id = r.trace_id]_vars

\* C21 witness: a submit whose produce failed was answered 503 and nothing
\* is on the commands topic.
C21_Witness ==
  /\ lab = "gateway"
  /\ commands = <<>>
  /\ \E i \in DOMAIN submits : submits[i].code = 503

\* C22: every accepted submit is answered with status 202 and the body
\* {trace_id, "PENDING"}, trace_id being that of the command published.
C22_SubmitAnswers202 ==
  \A i \in DOMAIN submits :
    EnqueuedWith(submits[i].trace_id) # {} =>
      submits[i].code = 202 /\ submits[i].status = "PENDING"

\* C23: on the commands topic the gateway wrote, a Read, Update or Delete
\* command is keyed by its message id, so two commands for the same message
\* id carry the same key.
C23_KeyedByMessageId ==
  lab = "gateway" =>
    /\ \A i \in DOMAIN commands :
         commands[i].value.command \in {"Read", "Update", "Delete"} =>
           commands[i].key = Itoa(commands[i].value.id)
    /\ \A i, j \in DOMAIN commands :
         /\ commands[i].value.command \in {"Read", "Update", "Delete"}
         /\ commands[j].value.command \in {"Read", "Update", "Delete"}
         /\ commands[i].value.id = commands[j].value.id
         => commands[i].key = commands[j].key

\* C24: every ack the consumer service produces carries the trace_id of the
\* command it answers and the Kafka key of that command's record.
C24_AckCarriesTraceIdAndKey ==
  /\ [](\A i \in DOMAIN acks :
          /\ acks[i].value.trace_id = commands[ackInfo[i].off].value.trace_id
          /\ acks[i].key = commands[ackInfo[i].off].key)
  /\ [][Len(acks') = Len(acks) + 1 =>
          /\ acks'[Len(acks')].value.trace_id = commands[pos].value.trace_id
          /\ acks'[Len(acks')].key = commands[pos].key]_vars

\* C24 witness: an ack was produced for a command whose record has an empty
\* key (its idempotency key is the trace id), and the ack's key is empty too.
C24_Witness ==
  \E i \in DOMAIN acks :
    /\ commands[ackInfo[i].off].key = ""
    /\ ackInfo[i].key = acks[i].value.trace_id
    /\ acks[i].key = ""

\* C25: a SUCCESS ack cached for a trace id is not replaced by a FAILURE ack
\* for the same trace id while the entry is live.
C25_SuccessWinsOverFailure ==
  [][\A id \in DOMAIN resultCache :
       /\ resultCache[id].status = "SUCCESS"
       /\ id \in DOMAIN resultExpires /\ resultExpires[id] = "future"
       /\ id \in DOMAIN resultCache'
       => resultCache'[id].status = "SUCCESS"]_vars

\* C26: a Create or Update command whose content is empty or blank is
\* answered with a FAILURE ack, and no row with such content is written to
\* the messages table.
C26_BlankContentFails ==
  /\ \A i \in DOMAIN acks :
       /\ ackInfo[i].cmd.command \in {"Create", "Update"}
       /\ TrimSpace(ackInfo[i].cmd.message) = ""
       => acks[i].value.status = "FAILURE"
  /\ \A id \in DOMAIN messages : TrimSpace(messages[id]) # ""

\* C27: Get, Update and Delete with id <= 0 return ErrInvalidID, Create and
\* Update with content that is empty after trimming return ErrEmptyContent
\* (for Update the id is looked at first), in both cases without any call
\* on the repository; for valid input the repository is called exactly once,
\* with the trimmed content.
C27_ValidatesBeforeRepository ==
  \A i \in DOMAIN svcLog :
    LET c == svcLog[i]
        invalidID == c.op \in {"Get", "Update", "Delete"} /\ c.id <= 0
        empty == c.op \in {"Create", "Update"} /\ c.content \in {"", "   "}
        method == IF c.op = "Get" THEN "GetByID" ELSE c.op
        trimmed == IF c.content = " hello " THEN "hello" ELSE c.content
    IN
    /\ invalidID => c.r.err = ErrInvalidID /\ c.r.calls = <<>>
    /\ (empty /\ ~invalidID) => c.r.err = ErrEmptyContent /\ c.r.calls = <<>>
    /\ (~empty /\ ~invalidID) =>
         /\ Len(c.r.calls) = 1
         /\ c.r.calls[1].method = method
         /\ c.r.calls[1].arg.ID = c.id
         /\ c.r.calls[1].arg.Content = trimmed
         /\ c.r.err \in RepoErrors

\* C27 witness: the Service has rejected an id, rejected a blank content,
\* and passed a content on trimmed.
C27_Witness ==
  /\ \E i \in DOMAIN svcLog : svcLog[i].r.err = ErrInvalidID /\ svcLog[i].id = 0
  /\ \E i \in DOMAIN svcLog :
       /\ svcLog[i].op = "Update"
       /\ svcLog[i].content = " hello "
       /\ svcLog[i].r.calls = <<RepoCall("Update", Message(svcLog[i].id, "hello"))>>

\* C28: a DLQ message without x-original-topic header is passed over by the
\* replayer: handling it writes no message to any topic.
C28_NoOriginalTopicIsSkipped ==
  [][(/\ lab = "saga"
      /\ replayPos' = replayPos + 1
      /\ ~HasOriginalTopic(sagaTopics[SagaDlq][replayPos].headers))
     => sagaTopics' = sagaTopics]_vars

\* C29: with SAGA_ID_FILTER set, the replayer consumes a DLQ message of
\* another saga (its offset is committed) without writing to any topic, and
\* whatever it republishes is a message of the filtered saga.
C29_FilterSelectsReplays ==
  [][(/\ lab = "saga"
      /\ replayPos' = replayPos + 1
      /\ sagaEnv.SAGA_ID_FILTER # "")
     => LET m == sagaTopics[SagaDlq][replayPos] IN
        /\ Unmarshal(m.value).saga_id # sagaEnv.SAGA_ID_FILTER =>
             sagaTopics' = sagaTopics /\ replayCommitted' = replayPos + 1
        /\ sagaTopics' # sagaTopics =>
             Unmarshal(m.value).saga_id = sagaEnv.SAGA_ID_FILTER]_vars

\* C29 witness: with a filter set the replayer has consumed a DLQ message of
\* another saga and one of the filtered saga, and republished only one.
C29_Witness ==
  /\ lab = "saga"
  /\ sagaEnv.SAGA_ID_FILTER # ""
  /\ replays = 1
  /\ \E i, j \in 1..(replayCommitted - 1) :
       /\ Unmarshal(sagaTopics[SagaDlq][i].value).saga_id # sagaEnv.SAGA_ID_FILTER
       /\ Unmarshal(sagaTopics[SagaDlq][j].value).saga_id = sagaEnv.SAGA_ID_FILTER

\* C30: once the context is cancelled, a ConsumeClaim loop that is in its
\* stage delay leaves it only by stopping: the waiting record is neither
\* sent to events.v1 nor marked.
C30_DelayHonorsCancellation ==
  [][\A t \in DOMAIN rwLoop :
       (/\ lab = "retryworker"
        /\ rwCtx = "cancelled"
        /\ rwLoop[t] = "sleep"
        /\ rwLoop'[t] # "sleep")
       => /\ rwLoop'[t] = "stopped"
          /\ topics'[MainTopic] = topics[MainTopic]
          /\ rwMarked'[t] = rwMarked[t]]_vars

\* C31: when Process reports a fatal failure for an event, the step service
\* writes nothing to TOPIC_OUT, and its write, when it goes through, appends
\* to the DLQ topic the event with the inbound key and the inbound headers
\* followed by x-saga-id and x-original-topic = TOPIC_IN.
C31_FatalGoesToDlq ==
  [][(/\ lab = "saga"
      /\ stepPos' = stepPos + 1
      /\ sagaTopics[TopicIn][stepPos].value.wellformed
      /\ \A r \in Process(sagaEnv.STEP, sagaEnv.FAIL_MODE,
                          Unmarshal(sagaTopics[TopicIn][stepPos].value)) : r.fatal)
     => LET m == sagaTopics[TopicIn][stepPos]
            evt == Unmarshal(m.value) IN
        /\ sagaTopics'[TopicOut] = sagaTopics[TopicOut]
        /\ faults' = faults =>
             sagaTopics' = [sagaTopics EXCEPT ![SagaDlq] =
                              Append(@, [key |-> m.key, value |-> Json(evt),
                                         headers |-> m.headers \o
                                           <<Header(HeaderSagaId, evt.saga_id),
                                             Header(HeaderOriginalTopic, TopicIn)>>])]]_vars

\* C31 witness: step 5 in FAIL_MODE fatal has handled an event and the DLQ
\* holds it with x-original-topic = TOPIC_IN.
C31_Witness ==
  /\ lab = "saga"
  /\ sagaEnv.FAIL_MODE = "fatal"
  /\ stepPos > 1
  /\ \E i \in DOMAIN sagaTopics[SagaDlq] :
       /\ sagaTopics[SagaDlq][i].key = sagaTopics[TopicIn][1].key
       /\ LastHeader(sagaTopics[SagaDlq][i].headers, HeaderOriginalTopic, "") = TopicIn

\* the methods called on the collaborators by the call recorded in c
CallsOf(c) == [i \in DOMAIN c.r.calls |-> c.r.calls[i].method]

\* what C32 says of one recorded PlaceOrder call
ChargedOnceThenSaved(c) ==
  LET chargeOk == c.chargeErr = ""
      saveFailed == chargeOk /\ c.saveErr # ""
  IN
  /\ CallsOf(c) = IF chargeOk THEN <<"Charge", "Save">> ELSE <<"Charge">>
  /\ c.r.o.Status = IF chargeOk THEN "paid" ELSE "failed"
  /\ (c.r.err # <<>>) <=> (~chargeOk \/ saveFailed)

\* C32 as stated: every PlaceOrder call calls Charge exactly once, calls
\* Save exactly once after a successful Charge and never after a failed
\* one, returns status "paid" or "failed" accordingly, and returns an error
\* exactly when Charge or Save failed.
C32_ChargeOnceSaveAfterCharge ==
  \A i \in DOMAIN orderLog : ChargedOnceThenSaved(orderLog[i])

\* C32 amended: the above holds for every order with AmountCents > 0; for
\* AmountCents <= 0 PlaceOrder calls neither Charge nor Save and returns the
\* order as it was given with the error "invalid amount".
C32_ValidAmountChargeOnceSaveAfterCharge ==
  \A i \in DOMAIN orderLog :
    LET c == orderLog[i] IN
    IF c.in.AmountCents > 0
    THEN /\ ChargedOnceThenSaved(c)
         /\ c.r.calls[1].amount = c.in.AmountCents
         /\ c.chargeErr = "" => c.r.calls[2].o = c.r.o
    ELSE /\ c.r.calls = <<>>
         /\ c.r.o = c.in
         /\ c.r.err = <<"invalid amount">>

\* C32 witness: an order was charged and then could not be saved (returned
\* "paid" with an error), and an order with amount 0 was turned away.
C32_Witness ==
  /\ \E i \in DOMAIN orderLog :
       /\ orderLog[i].r.o.Status = "paid"
       /\ orderLog[i].r.err = Wrap("save failed", "db down")
  /\ \E i \in DOMAIN orderLog :
       orderLog[i].in.AmountCents = 0 /\ orderLog[i].r.calls = <<>>

\* C33: a record whose forward produce failed is left unmarked and stays
\* uncovered: the marked offset of the processor, and of the retry worker on
\* each retry topic, only moves over the record being handled when every
\* record before it has been marked, so it never passes an unmarked record
\* when a later record of the partition is marked.
C33_FailedForwardStaysUncommitted ==
  [][lab = "sarama" =>
       /\ procMarked' # procMarked => procMarked = procPos
       /\ \A t \in RetryTopics : rwMarked'[t] # rwMarked[t] => rwMarked[t] = rwPos[t]]_vars

\* C34: the retry worker sends a record to events.v1 only when the delay of
\* the record's stage has passed since it took the record (which is not
\* before the record's timestamp), and what it sends, when the send goes
\* through, is the record it took with the same key, value and headers.
C34_RequeuedUnchangedAfterDelay ==
  [][lab = "retryworker" =>
       /\ \A t \in RetryTopics :
            (rwLoop[t] = "due" /\ rwLoop'[t] # "due" /\ faults' = faults) =>
              LET msg == topics[t][rwPos[t]] IN
              topics'[MainTopic] =
                Append(topics[MainTopic],
                       [key |-> msg.key, value |-> msg.value, headers |-> msg.headers])
       /\ topics'[MainTopic] # topics[MainTopic] =>
            \E t \in RetryTopics :
              /\ rwLoop[t] = "due"
              /\ rwLoop'[t] = "recv"
              /\ Len(topics'[MainTopic]) = Len(topics[MainTopic]) + 1
       /\ \A t \in RetryTopics : topics'[t] = topics[t]]_vars

\* C34 witness: the record of the 2-minute stage is on events.v1 again with
\* its attempt and error headers.
C34_Witness ==
  /\ lab = "retryworker"
  /\ rwPos[Stages[3].Topic] = 2
  /\ \E i \in DOMAIN topics[MainTopic] :
       /\ topics[MainTopic][i].key = topics[Stages[3].Topic][1].key
       /\ topics[MainTopic][i].headers =
            <<ContentType, Header(HeaderAttempt, "1"), Header(HeaderError, ErrText)>>

\* C35: every event on TOPIC_OUT carries the step after the service's own
\* step, so an event whose processing failed as retryable or flaky is not
\* there with its step unchanged.
C35_ForwardedEventsAdvanceStep ==
  lab = "saga" =>
    \A i \in DOMAIN sagaTopics[TopicOut] :
      sagaTopics[TopicOut][i].value.step = sagaEnv.STEP + 1

\* C36: when getAck returns a found ack for a trace id, that ack is the one
\* last put for the id when getAck read the maps, and its expiry, the
\* instant of that put plus cacheTTL, has not passed at the return, whether
\* the sweeper has run or not.
C36_GetAckReturnsLastUnexpiredAck ==
  [][lab = "cache" =>
       \A r \in Readers :
         LET me == cacheRun.readers[r]
             ret == cacheRun'.readers[r].ret IN
         (me.pc = "check" /\ cacheRun'.readers[r].pc = "idle" /\ ret[1].ok) =>
           /\ me.seen # <<>>
           /\ me.seen[1].a.trace_id = me.id
           /\ ret[1].a = <<me.seen[1].a>>
           /\ ~(cacheHist.now > me.seen[1].at + cacheTTL)]_vars

\* C36 witness: one handler got the second ack put for its trace id, while
\* another is about to be refused an entry that has expired and is still in
\* both maps.
C36_Witness ==
  /\ lab = "cache"
  /\ cacheHist.puts = 2
  /\ \E r1, r2 \in Readers :
       /\ cacheRun.readers[r1].ret # <<>>
       /\ cacheRun.readers[r1].ret[1].ok
       /\ cacheRun.readers[r1].ret[1].a[1].status = "FAILED"
       /\ cacheRun.readers[r2].pc = "check"
       /\ cacheRun.readers[r2].ok
       /\ cacheHist.now > cacheRun.readers[r2].exp
       /\ cacheRun.readers[r2].id \in DOMAIN resultCache \cap DOMAIN resultExpires

\* C37: whenever no goroutine holds the write lock, which is when a reader
\* can look, resultCache and resultExpires have the same keys; and a key
\* leaves a map only in a step of the sweeper inside its critical section:
\* resultExpires when the key's expiry has passed, resultCache right after.
C37_MapsAgreeAndOnlyExpiredAreSwept ==
  /\ [](lab = "cache" /\ cacheMu.w = "" => DOMAIN resultCache = DOMAIN resultExpires)
  /\ [][lab = "cache" =>
          /\ \A k \in DOMAIN resultExpires \ DOMAIN resultExpires' :
               /\ cacheMu.w = "sweeper" /\ cacheMu'.w = "sweeper"
               /\ cacheHist.now > resultExpires[k]
          /\ \A k \in DOMAIN resultCache \ DOMAIN resultCache' :
               /\ cacheMu.w = "sweeper" /\ cacheMu'.w = "sweeper"
               /\ k \notin DOMAIN resultExpires]_vars

\* C37 witness: the sweeper has taken the expired entry of t1 out of both
\* maps and released the lock, the entry of t2 is still there, and a
\* handler holds the read lock.
C37_Witness ==
  /\ lab = "cache"
  /\ cacheMu.w = ""
  /\ cacheMu.r # {}
  /\ cacheRun.sweeper.pc = "idle"
  /\ "t1" \in DOMAIN cacheHist.last
  /\ DOMAIN resultCache = {"t2"}
  /\ DOMAIN resultExpires = {"t2"}

\* C38: a create that is answered 201 stores its message under an id no
\* stored message had, leaves every stored message as it was, and makes the
\* store one message larger.
C38_CreateTakesFreshId ==
  [][(lab = "api" /\ Len(resp') = Len(resp) + 1
        /\ resp'[Len(resp')].op = "create" /\ resp'[Len(resp')].code = 201) =>
       /\ resp'[Len(resp')].body.ID \notin DOMAIN store
       /\ \A k \in DOMAIN store : k \in DOMAIN store' /\ store'[k] = store[k]
       /\ Cardinality(DOMAIN store') = Cardinality(DOMAIN store) + 1]_vars

\* C39: for every attempt the processor has called retry.Next with, the call
\* returned: the stage numbered attempt (counted from 0) and true when
\* 0 <= attempt < len(Stages), the zero Stage and false otherwise, a
\* negative attempt from a header included.
C39_NextIsTotal ==
  lab = "sarama" =>
    \A i \in DOMAIN topics[MainTopic] :
      LET msg == topics[MainTopic][i]
          attempt == parseAttempt(msg.headers)
          r == RetryNext(attempt) IN
      ((i < procPos \/ (i = procPos /\ procDown)) /\ ~businessLogic(msg)) =>
        /\ ~r.panic
        /\ r.ok <=> (0 <= attempt /\ attempt < Len(Stages))
        /\ r.ok => r.Topic = Stages[attempt + 1].Topic
        /\ ~r.ok => r.Topic = ""
====
